---- MODULE Spec2Model ----
(***************************************************************************)
(* Model of the RAG helpers of src/trust_rag_api.py: _clean_title,         *)
(* _listing_title and _dedup_and_rank_sources.                             *)
(*                                                                         *)
(* Python strings are sequences of one-character strings, so that the      *)
(* regular expressions, str.strip, str() and float() are computed          *)
(* character by character.  Python values are tagged records:              *)
(*   [t |-> "none"]            None                                        *)
(*   [t |-> "str", s |-> seq]  a str                                       *)
(*   [t |-> "num", n |-> i]    an int (also standing for the float i.0     *)
(*                             where the code converts with float())       *)
(*   [t |-> "map", d |-> f]    a dict; absent keys are outside DOMAIN f    *)
(*   [t |-> "list", l |-> seq] a list                                      *)
(* An operation that may raise returns [ok |-> TRUE, v |-> value] or       *)
(* [ok |-> FALSE, exc |-> name of the exception].                          *)
(***************************************************************************)
EXTENDS Integers, Sequences, FiniteSets, TLC

\* ------------------------------------------------------------ bounds ----
\* Longest list of matches drawn from MatchPool.
MaxMatches == 3
\* Largest top_k tried (the smallest is -1).
MaxTopK == 3
\* Longest raw title enumerated over TitleAlphabet.
MaxTitleLen == 4

\* --------------------------------------------------- Python values ----
NoneV == [t |-> "none"]

StrV(s) == [t |-> "str", s |-> s]

NumV(n) == [t |-> "num", n |-> n]

MapV(d) == [t |-> "map", d |-> d]

ListV(l) == [t |-> "list", l |-> l]

\* The empty dict {} (a function with empty domain).
EmptyDict == [k \in {} |-> NoneV]

Ok(v) == [ok |-> TRUE, v |-> v]

Raise(e) == [ok |-> FALSE, exc |-> e]

\* Python truth value of a value.
Truthy(v) ==
    CASE v.t = "none" -> FALSE
      [] v.t = "str"  -> v.s # <<>>
      [] v.t = "num"  -> v.n # 0
      [] v.t = "map"  -> DOMAIN v.d # {}
      [] v.t = "list" -> v.l # <<>>

\* Python's  a or b.
PyOr(a, b) == IF Truthy(a) THEN a ELSE b

\* dict.get(k, default) on the dict d.
Get(d, k, default) == IF k \in DOMAIN d THEN d[k] ELSE default

\* ------------------------------------------------ character classes ----
Digits == {"0", "1", "2", "3", "4", "5", "6", "7", "8", "9"}

DigitSeq == <<"0", "1", "2", "3", "4", "5", "6", "7", "8", "9">>

\* [0-9a-f]
HexChars == Digits \cup {"a", "b", "c", "d", "e", "f"}

LowerLetters == {"a", "b", "c", "d", "e", "f", "g", "h", "i", "j", "k", "l", "m",
                 "n", "o", "p", "q", "r", "s", "t", "u", "v", "w", "x", "y", "z"}

UpperLetters == {"A", "B", "C", "D", "E", "F", "G", "H", "I", "J", "K", "L", "M",
                 "N", "O", "P", "Q", "R", "S", "T", "U", "V", "W", "X", "Y", "Z"}

\* \w of the re module: letters, digits and the underscore.
WordChars == LowerLetters \cup UpperLetters \cup Digits \cup {"_"}

\* \s of the re module, and the characters str.strip() removes.
Whitespace == {" ", "\t", "\n", "\r", "\f"}

\* [_\-:\s] of the tier-prefix pattern.
PrefixSeps == {"_", "-", ":"} \cup Whitespace

\* The characters of  .strip(" -–—") ; the en dash and the em dash
\* are written "endash" and "emdash".
TitleStripChars == {" ", "-", "endash", "emdash"}

\* {8,} of the hex-run pattern.
HexRunMin == 8

\* len(first) >= 6 of the " -- " rule.
FirstSegmentMin == 6

\* ------------------------------------------------- string helpers ----
\* s[i:] for 1 <= i <= Len(s)+1 (1-based).
From(s, i) == SubSeq(s, i, Len(s))

\* s.lstrip(chars)
RECURSIVE LStrip(_, _)
LStrip(s, chars) ==
    IF s # <<>> /\ Head(s) \in chars THEN LStrip(Tail(s), chars) ELSE s

\* s.rstrip(chars)
RECURSIVE RStrip(_, _)
RStrip(s, chars) ==
    IF s # <<>> /\ s[Len(s)] \in chars
    THEN RStrip(SubSeq(s, 1, Len(s) - 1), chars)
    ELSE s

\* s.strip(chars)
Strip(s, chars) == RStrip(LStrip(s, chars), chars)

\* Whether the sequence p occurs in s at position i.
OccursAt(s, p, i) ==
    /\ i + Len(p) - 1 <= Len(s)
    /\ \A j \in 1..Len(p) : s[i + j - 1] = p[j]

\* str(n) for an int n.
RECURSIVE NatToStr(_)
NatToStr(n) ==
    IF n < 10 THEN <<DigitSeq[n + 1]>>
    ELSE NatToStr(n \div 10) \o <<DigitSeq[(n % 10) + 1]>>

IntToStr(n) == IF n < 0 THEN <<"-">> \o NatToStr(-n) ELSE NatToStr(n)

\* The value of a decimal digit character.
DigitVal(c) == CHOOSE d \in 0..9 : DigitSeq[d + 1] = c

RECURSIVE DigitsToNat(_)
DigitsToNat(s) ==
    IF s = <<>> THEN 0
    ELSE 10 * DigitsToNat(SubSeq(s, 1, Len(s) - 1)) + DigitVal(s[Len(s)])

\* str(v)
PyStr(v) ==
    CASE v.t = "none" -> <<"N", "o", "n", "e">>
      [] v.t = "str"  -> v.s
      [] v.t = "num"  -> IntToStr(v.n)

\* float(v): a number converts to itself; a string is stripped of
\* whitespace, then an optional sign and a non-empty run of digits are
\* read; None raises TypeError and any other string ValueError.
PyFloat(v) ==
    CASE v.t = "num"  -> Ok(v.n)
      [] v.t = "none" -> Raise("TypeError")
      [] v.t = "map"  -> Raise("TypeError")
      [] v.t = "str"  ->
            LET s    == Strip(v.s, Whitespace)
                neg  == s # <<>> /\ Head(s) = "-"
                body == IF s # <<>> /\ Head(s) \in {"-", "+"} THEN Tail(s) ELSE s
            IN  IF body # <<>> /\ \A j \in 1..Len(body) : body[j] \in Digits
                THEN Ok(IF neg THEN -DigitsToNat(body) ELSE DigitsToNat(body))
                ELSE Raise("ValueError")

\* ---------------------------------------------------- _clean_title ----
\* re.sub(r'^[Ll]\d[_\-:\s]+', '', t): a leading L or l, one digit and a
\* maximal run of separators are removed.
StripTierPrefix(t) ==
    IF /\ Len(t) >= 3
       /\ t[1] \in {"L", "l"}
       /\ t[2] \in Digits
       /\ t[3] \in PrefixSeps
    THEN LStrip(From(t, 3), PrefixSeps)
    ELSE t

\* \b between positions i-1 and i of t: exactly one side is a word character
\* (outside the string counts as a non-word character).
IsWordAt(t, i) == i >= 1 /\ i <= Len(t) /\ t[i] \in WordChars

WordBoundary(t, i) == IsWordAt(t, i - 1) # IsWordAt(t, i)

\* (?i)\bocr\b matches at position i of t.
OcrAt(t, i) ==
    /\ i + 2 <= Len(t)
    /\ t[i] \in {"o", "O"}
    /\ t[i + 1] \in {"c", "C"}
    /\ t[i + 2] \in {"r", "R"}
    /\ WordBoundary(t, i)
    /\ WordBoundary(t, i + 3)

\* re.sub(r'(?i)\bocr\b', '', t): the matches are found in t from left to
\* right and dropped.
RECURSIVE RemoveOcrFrom(_, _)
RemoveOcrFrom(t, i) ==
    IF i > Len(t) THEN <<>>
    ELSE IF OcrAt(t, i) THEN RemoveOcrFrom(t, i + 3)
    ELSE <<t[i]>> \o RemoveOcrFrom(t, i + 1)

RemoveOcr(t) == RemoveOcrFrom(t, 1)

\* Length of the maximal run of [0-9a-f] that starts at position i of t.
RECURSIVE HexRunLen(_, _)
HexRunLen(t, i) ==
    IF i <= Len(t) /\ t[i] \in HexChars THEN 1 + HexRunLen(t, i + 1) ELSE 0

\* re.sub(r'[0-9a-f]{8,}', '', t): every maximal run of at least HexRunMin
\* lower-case hex characters is dropped.
RECURSIVE RemoveHexFrom(_, _)
RemoveHexFrom(t, i) ==
    IF i > Len(t) THEN <<>>
    ELSE IF HexRunLen(t, i) >= HexRunMin
         THEN RemoveHexFrom(t, i + HexRunLen(t, i))
         ELSE <<t[i]>> \o RemoveHexFrom(t, i + 1)

RemoveHexRuns(t) == RemoveHexFrom(t, 1)

\* The separator " -- ".
DashSep == <<" ", "-", "-", " ">>

\* if " -- " in t: first, *_ = t.split(" -- "); if len(first) >= 6: t = first
KeepFirstSegment(t) ==
    LET hits == {i \in 1..Len(t) : OccursAt(t, DashSep, i)}
    IN  IF hits = {} THEN t
        ELSE LET i     == CHOOSE h \in hits : \A g \in hits : h <= g
                 first == SubSeq(t, 1, i - 1)
             IN  IF Len(first) >= FirstSegmentMin THEN first ELSE t

\* t.replace("_", " ")
UnderscoresToSpaces(t) == [i \in 1..Len(t) |-> IF t[i] = "_" THEN " " ELSE t[i]]

\* re.sub(r"\s+", " ", t): every maximal run of whitespace becomes one space.
RECURSIVE CollapseFrom(_, _)
CollapseFrom(t, i) ==
    IF i > Len(t) THEN <<>>
    ELSE IF t[i] \in Whitespace
         THEN IF i > 1 /\ t[i - 1] \in Whitespace
              THEN CollapseFrom(t, i + 1)
              ELSE <<" ">> \o CollapseFrom(t, i + 1)
         ELSE <<t[i]>> \o CollapseFrom(t, i + 1)

CollapseWhitespace(t) == CollapseFrom(t, 1)

\* The body of _clean_title on a str t (after  title or "Unknown").
CleanStr(t) ==
    LET t1 == StripTierPrefix(t)
        t2 == RemoveOcr(t1)
        t3 == RemoveHexRuns(t2)
        t4 == KeepFirstSegment(t3)
    IN  Strip(CollapseWhitespace(UnderscoresToSpaces(t4)), TitleStripChars)

Unknown == <<"U", "n", "k", "n", "o", "w", "n">>

\* _clean_title(title): re.sub raises TypeError on a value that is not a str.
CleanTitle(title) ==
    LET t == PyOr(title, StrV(Unknown))
    IN  IF t.t = "str" THEN Ok(CleanStr(t.s)) ELSE Raise("TypeError")

\* _listing_title(meta)
ListingTitle(meta) ==
    CleanTitle(PyOr(PyOr(Get(meta, "title", NoneV), Get(meta, "doc_parent", NoneV)),
                    StrV(Unknown)))

\* ------------------------------------------ _dedup_and_rank_sources ----
\* A match is [kind |-> "dict" or "obj", f |-> its items or attributes];
\* the keys "metadata" and "score" may be absent from f.

\* meta = m.get("metadata", {}) if isinstance(m, dict)
\*        else getattr(m, "metadata", {}) or {}
MetaOf(m) ==
    IF m.kind = "dict"
    THEN Get(m.f, "metadata", MapV(EmptyDict))
    ELSE PyOr(Get(m.f, "metadata", MapV(EmptyDict)), MapV(EmptyDict))

\* m.get("score") if isinstance(m, dict) else getattr(m, "score", 0.0)
RawScoreOf(m) ==
    IF m.kind = "dict"
    THEN Get(m.f, "score", NoneV)
    ELSE Get(m.f, "score", NumV(0))

NotApplicable == <<"N", "/", "A">>

\* Mutant of LevelOf: a level outside L1..L5 replaced by "N/A".
LevelOfClosedSet(meta) ==
    LET v == PyOr(PyOr(Get(meta, "doc_level", NoneV), Get(meta, "level", NoneV)),
                  StrV(NotApplicable))
        s == IF v.t = "str" THEN Strip(v.s, Whitespace) ELSE <<>>
    IN  IF v.t # "str" THEN Raise("AttributeError")
        ELSE IF Len(s) = 2 /\ s[1] = "L" /\ s[2] \in {"1", "2", "3", "4", "5"}
             THEN Ok(s)
             ELSE Ok(NotApplicable)

\* lvl = (meta.get("doc_level") or meta.get("level") or "N/A").strip()
\* Only a str has .strip().
LevelOf(meta) ==
    LET v == PyOr(PyOr(Get(meta, "doc_level", NoneV), Get(meta, "level", NoneV)),
                  StrV(NotApplicable))
    IN  IF v.t = "str" THEN Ok(Strip(v.s, Whitespace)) ELSE Raise("AttributeError")

\* page = str(meta.get("page", "?"))
PageOf(meta) == PyStr(Get(meta, "page", StrV(<<"?">>)))

\* ver = str(x) if x else ""   where x = meta.get("version", meta.get("v", ""))
VersionOf(meta) ==
    LET x == Get(meta, "version", Get(meta, "v", StrV(<<>>)))
    IN  IF Truthy(x) THEN PyStr(x) ELSE <<>>

\* One pass of the loop body up to the computation of key (lines 185-191),
\* in the order of the code: the first statement that raises ends the call.
Derive(m) ==
    LET mv == MetaOf(m)
    IN  IF mv.t # "map" THEN Raise("AttributeError")
        ELSE LET meta  == mv.d
                 title == ListingTitle(meta)
                 lvl   == LevelOf(meta)
                 score == PyFloat(RawScoreOf(m))
             IN  IF ~title.ok THEN title
                 ELSE IF ~lvl.ok THEN lvl
                 ELSE IF ~score.ok THEN score
                 ELSE Ok([title   |-> title.v,
                          level   |-> lvl.v,
                          page    |-> PageOf(meta),
                          version |-> VersionOf(meta),
                          score   |-> score.v,
                          meta    |-> meta])

\* key = (title, lvl, page, ver)
KeyOf(e) == <<e.title, e.level, e.page, e.version>>

\* Mutants of ScoreBeats: the comparison reversed, and ties replacing.
ScoreBeatsReversed(new, old) == new < old

ScoreBeatsOrTies(new, old) == new >= old

\* score > best[key]["score"]
ScoreBeats(new, old) == new > old

\* Mutants of Store: the test  key not in best  forgotten, and a replaced
\* key moved behind the others.
StoreWithoutKeyTest(b, e) == Append(b, e)

StoreMovesToEnd(b, e) ==
    LET at == {j \in 1..Len(b) : KeyOf(b[j]) = KeyOf(e)}
    IN  IF at = {} THEN Append(b, e)
        ELSE LET j == CHOOSE x \in at : TRUE
             IN  IF ScoreBeats(e.score, b[j].score)
                 THEN Append(SubSeq(b, 1, j - 1) \o SubSeq(b, j + 1, Len(b)), e)
                 ELSE b

\* if key not in best or score > best[key]["score"]: best[key] = {...}
\* best is a dict: its values in insertion order; assigning to a key that
\* is present keeps the key's position.
Store(b, e) ==
    LET at == {j \in 1..Len(b) : KeyOf(b[j]) = KeyOf(e)}
    IN  IF at = {} THEN Append(b, e)
        ELSE LET j == CHOOSE x \in at : TRUE
             IN  IF ScoreBeats(e.score, b[j].score)
                 THEN [b EXCEPT ![j] = e]
                 ELSE b

\* 99 of rank.get(s["level"], 99)
DefaultTier == 99

\* rank = {"L1":1,...,"L5":5};  rank.get(level, 99)
Tier(level) ==
    IF Len(level) = 2 /\ level[1] = "L" /\ level[2] \in {"1", "2", "3", "4", "5"}
    THEN DigitVal(level[2])
    ELSE DefaultTier

\* Mutant of SortKeyLess: the tier left out of the sort key.
SortKeyLessByScoreOnly(a, b) == -a.score < -b.score

\* The sort key (rank.get(s["level"], 99), -s["score"]) of a is less than
\* that of b (tuples compare lexicographically).
SortKeyLess(a, b) ==
    \/ Tier(a.level) < Tier(b.level)
    \/ Tier(a.level) = Tier(b.level) /\ -a.score < -b.score

\* Insert e into the sorted list u behind every entry whose key is not
\* greater than e's (stable).
RECURSIVE InsertSorted(_, _)
InsertSorted(u, e) ==
    IF u = <<>> THEN <<e>>
    ELSE IF SortKeyLess(e, Head(u)) THEN <<e>> \o u
    ELSE <<Head(u)>> \o InsertSorted(Tail(u), e)

\* Mutant of SortSources: the list left in insertion order.
SortSourcesOmitted(u) == u

\* uniq.sort(key=...): list.sort is stable.
RECURSIVE SortSources(_)
SortSources(u) ==
    IF u = <<>> THEN <<>>
    ELSE InsertSorted(SortSources(SubSeq(u, 1, Len(u) - 1)), u[Len(u)])

\* Mutants of Truncate: one entry too many, and no truncation.
TruncateOneMore(u, k) == SubSeq(u, 1, IF k + 1 < Len(u) THEN k + 1 ELSE Len(u))

TruncateOmitted(u, k) == u

\* uniq[:top_k]: a negative top_k counts from the end.
Truncate(u, k) ==
    LET n == IF k >= 0 THEN (IF k < Len(u) THEN k ELSE Len(u))
             ELSE (IF Len(u) + k > 0 THEN Len(u) + k ELSE 0)
    IN  SubSeq(u, 1, n)

\* ----------------------------------------------------------- inputs ----
\* Scores are floats in the code; the model draws them from the integers
\* (floats that are exact), and the scenarios of the specification carry
\* their scores multiplied by 100.
TitleA == <<"A">>

TitleB == <<"B">>

L1 == <<"L", "1">>

L3 == <<"L", "3">>

Dict(meta, score) == [kind |-> "dict", f |-> [metadata |-> MapV(meta), score |-> score]]

Obj(meta, score) == [kind |-> "obj", f |-> [metadata |-> MapV(meta), score |-> score]]

\* Matches that the loop body accepts.  The first three derive the same key
\* ("A", "L1", "5", ""): by title cleaning, by level stripping, by str(page)
\* and by the doc_parent / level fallbacks; the first and the third tie.
MatchPool ==
    { Dict([title |-> StrV(<<"L", "1", "_", "A">>), doc_level |-> StrV(L1),
            page |-> StrV(<<"5">>), text |-> StrV(<<"x">>)], NumV(1)),
      Dict([title |-> StrV(TitleA), doc_level |-> StrV(<<" ">> \o L1),
            page |-> NumV(5), text |-> StrV(<<"y">>)], NumV(2)),
      Obj([doc_parent |-> StrV(TitleA), level |-> StrV(L1),
           page |-> StrV(<<"5">>), text |-> StrV(<<"z">>)], NumV(1)),
      Dict([title |-> StrV(TitleB), doc_level |-> StrV(L3),
            page |-> StrV(<<"5">>)], NumV(2)),
      Dict([title |-> StrV(TitleA), doc_level |-> StrV(L1),
            page |-> StrV(<<"6">>), version |-> StrV(<<"2">>)], NumV(0)),
      Dict([title |-> StrV(TitleA), doc_level |-> StrV(L1),
            page |-> StrV(<<"7">>), v |-> NumV(3)], NumV(1)),
      Dict([title |-> StrV(<<"L", "1", "_">>), doc_level |-> StrV(<<"X">>),
            page |-> StrV(<<"5">>)], StrV(<<"2">>)),
      [kind |-> "obj", f |-> EmptyDict] }

GilbertRaw ==
    <<"L", "2", "_", "G", "i", "l", "b", "e", "r", "t", " ", "L", "a", "w", " ",
      "S", "u", "m", "m", "a", "r", "i", "e", "s", "_",
      "a", "b", "c", "d", "e", "f", "1", "2", "3", "4", "5", "6", "7", "8", "9", "0",
      "_", "O", "C", "R">>

GilbertMeta ==
    [title |-> StrV(GilbertRaw), doc_level |-> StrV(<<"L", "2">>), page |-> StrV(<<"5">>)]

TierMatch(lvl, page, score) ==
    Dict([title |-> StrV(TitleA), doc_level |-> StrV(lvl), page |-> StrV(<<page>>)],
         NumV(score))

\* The scenarios of the specification, and malformed matches: a dict match
\* with no score, a null metadata, a title and a level that are numbers, a
\* score that is no number, an object whose score attribute is None, and
\* a key whose entry is replaced by a match that ties with another key.
Scenarios ==
    { <<Dict(GilbertMeta, NumV(81)), Dict(GilbertMeta, NumV(93))>>,
      <<[kind |-> "dict", f |-> [metadata |-> MapV(EmptyDict)]]>>,
      <<TierMatch(L1, "1", 50), TierMatch(L1, "2", 90), TierMatch(L1, "3", 70),
        TierMatch(L3, "4", 99), TierMatch(L3, "5", 95)>>,
      <<TierMatch(L1, "1", 1), [kind |-> "dict", f |-> [metadata |-> NoneV, score |-> NumV(1)]]>>,
      <<[kind |-> "dict", f |-> [score |-> NumV(1)]],
        Dict([title |-> NumV(7)], NumV(1))>>,
      <<Dict([doc_level |-> NumV(3)], NumV(1))>>,
      <<Dict([title |-> StrV(TitleA)], StrV(<<"x">>))>>,
      <<[kind |-> "obj", f |-> [metadata |-> NoneV, score |-> NoneV]]>>,
      <<TierMatch(L1, "1", 50), TierMatch(L1, "2", 90), TierMatch(L1, "1", 90)>> }

SeqsUpTo(S, n) == UNION {[1..k -> S] : k \in 0..n}

\* The values of the matches argument: None, the lists of at most MaxMatches
\* matches of the pool, and the scenarios.
MatchInputs ==
    {NoneV, NumV(5)} \cup {ListV(l) : l \in SeqsUpTo(MatchPool, MaxMatches) \cup Scenarios}

TopKInputs == (-1)..MaxTopK

TitleAlphabet == {"L", "1", "_", "-", " ", "A"}

TitleScenarios ==
    { GilbertRaw,
      <<"O", "C", "R">>,
      <<"o", "c", "r", " ", "A">>,
      <<"a", "b", "c", "d", "e", "f", "1", "2">>,
      <<"a", "b", "c", "d", "e", "f", "1">>,
      <<"L", "1", "_", "L", "2", "_", "A">>,
      <<"_", "L", "1", "_", "A">>,
      <<"A", "B", "C", "D", "E", "F", " ", "-", "-", " ", "x">>,
      <<"A", "B", "C", " ", "-", "-", " ", "x">>,
      <<"endash", "A", "\t", "\t", "B", "emdash">> }

\* The values of the title argument of _clean_title.
TitleInputs ==
    {NoneV, NumV(0), NumV(7)} \cup {StrV(s) : s \in SeqsUpTo(TitleAlphabet, MaxTitleLen) \cup TitleScenarios}

\* ---------------------------------------------------- state machine ----
VARIABLES
    matches,    \* argument of _dedup_and_rank_sources
    top_k,      \* argument of _dedup_and_rank_sources
    pc,         \* "idle", "loop", "done" (returned) or "raised"
    i,          \* index in matches of the next pass of the loop (1-based)
    best,       \* the values of the dict best, in insertion order
    result,     \* the list returned
    exc,        \* the exception raised, "" when none
    calls,      \* number of calls of _dedup_and_rank_sources made so far
    title,      \* argument of _clean_title
    tpc,        \* "idle", "call", "done", "again" or "raised"
    cleaned,    \* the str returned by _clean_title
    recleaned,  \* the str returned by _clean_title(cleaned)
    uniq_sources, \* per invocation of _titles_only: its argument
    tpos,       \* per invocation: index of the next pass of its loop (1-based)
    seen,       \* per invocation: its local set seen
    out,        \* per invocation: its local list out, the list returned
    kpc,        \* per invocation: "idle", "loop", "done" or "raised"
    meta,       \* argument of _extract_snippet
    spos,       \* index of the candidate key examined next (1-based)
    snippet,    \* the str returned by _extract_snippet
    spc,        \* "idle", "loop" or "done"
    API_TOKEN,  \* the module's API_TOKEN, "" when authentication is off
    authorization, \* the request's Authorization header, None when absent
    endpoint,   \* "search", "rag" or "review"
    files,      \* the files uploaded to /review
    REQUESTS,   \* the deque of the times of the admitted requests
    hpc,        \* the handler's position, "idle" when no request is served
    status,     \* the HTTP status answered, 0 while there is none
    events,     \* the rate-limit checks, database writes and external calls
                \* made, and behind a call or a test that raised, "raised"
                \* (with the status when it is an HTTPException)
    question,   \* main.py /api/chat: the stripped message of the request
    pc_index,   \* main.py: TRUE when the Pinecone index is configured
    retrieved,  \* /api/chat: the list retrieved
    citations,  \* /api/chat: the citations of the response, None without the key
    apc,        \* /api/chat: the handler's position, "idle" without a request
    astatus,    \* /api/chat: the HTTP status answered, 0 while there is none
    aevents,    \* /api/chat: the external calls made, "raised" behind one that raised
    chats,      \* the committed rows of the table chats: (id, user_id)
    messages,   \* the committed rows of the table messages: (id, chat_id, user_id, role)
    lock,       \* the request whose connection holds an open write transaction, 0 for none
    reqs,       \* per request against the chat store: its arguments, locals and position
    clock,      \* what time.time() returns now
    rnow,       \* check_rate_limit: the local now of each thread
    rpc,        \* check_rate_limit: the position of each thread
    snippets,   \* synthesize_html: the argument snippets
    sources_given,      \* synthesize_html: TRUE when uniq_sources is not empty
    MAX_SNIPPETS,       \* the module constant, read from the environment at import
    MAX_CONTEXT_CHARS,  \* the module constant, read from the environment at import
    sidx,       \* synthesize_html: the index of the next snippet of the loop
    buf,        \* synthesize_html: the local buf
    used,       \* synthesize_html: the local used
    kept,       \* synthesize_html: the local kept
    context,    \* synthesize_html: the local context, None before the join
    ypc         \* synthesize_html: its position

vars == <<matches, top_k, pc, i, best, result, exc, calls, title, tpc, cleaned, recleaned,
          uniq_sources, tpos, seen, out, kpc, meta, spos, snippet, spc,
          API_TOKEN, authorization, endpoint, files, REQUESTS, hpc, status, events,
          question, pc_index, retrieved, citations, apc, astatus, aevents,
          chats, messages, lock, reqs, clock, rnow, rpc,
          snippets, sources_given, MAX_SNIPPETS, MAX_CONTEXT_CHARS, sidx, buf, used, kept,
          context, ypc>>

dedupVars == <<matches, top_k, pc, i, best, result, exc, calls>>

titleVars == <<title, tpc, cleaned, recleaned>>

titlesOnlyVars == <<uniq_sources, tpos, seen, out, kpc>>

\* What a call of _dedup_and_rank_sources, and of _clean_title, leaves alone.
snippetVars == <<meta, spos, snippet, spc>>

requestVars == <<API_TOKEN, authorization, endpoint, files, REQUESTS, hpc, status, events>>

chatVars == <<question, pc_index, retrieved, citations, apc, astatus, aevents>>

storeVars == <<chats, messages, lock, reqs>>

rateVars == <<clock, rnow, rpc>>

synthVars == <<snippets, sources_given, MAX_SNIPPETS, MAX_CONTEXT_CHARS, sidx, buf, used, kept,
               context, ypc>>

nonDedupVars == <<titleVars, titlesOnlyVars, snippetVars, requestVars, chatVars, storeVars, rateVars, synthVars>>

nonTitleVars == <<dedupVars, titlesOnlyVars, snippetVars, requestVars, chatVars, storeVars, rateVars, synthVars>>

nonTitlesOnlyVars == <<dedupVars, titleVars, snippetVars, requestVars, chatVars, storeVars, rateVars, synthVars>>

nonSnippetVars == <<dedupVars, titleVars, titlesOnlyVars, requestVars, chatVars, storeVars, rateVars, synthVars>>

nonRequestVars == <<dedupVars, titleVars, titlesOnlyVars, snippetVars, chatVars, storeVars, rateVars, synthVars>>

nonChatVars == <<dedupVars, titleVars, titlesOnlyVars, snippetVars, requestVars, storeVars, rateVars, synthVars>>

\* What a call of check_rate_limit leaves alone: everything but its locals
\* and the deque REQUESTS.
nonRateVars ==
    <<dedupVars, titleVars, titlesOnlyVars, snippetVars, chatVars, storeVars, synthVars,
      API_TOKEN, authorization, endpoint, files, hpc, status, events>>

nonSynthVars ==
    <<dedupVars, titleVars, titlesOnlyVars, snippetVars, requestVars, chatVars, storeVars,
      rateVars>>

nonStoreVars == <<dedupVars, titleVars, titlesOnlyVars, snippetVars, requestVars, chatVars, rateVars, synthVars>>

\* The invocations of _titles_only.
Procs == {1, 2}

\* No call of _dedup_and_rank_sources, of _clean_title, of _titles_only.
DedupIdle ==
    /\ matches = NoneV
    /\ top_k = 0
    /\ pc = "idle"
    /\ i = 1
    /\ best = <<>>
    /\ result = <<>>
    /\ exc = ""
    /\ calls = 0

TitleIdle ==
    /\ title = NoneV
    /\ tpc = "idle"
    /\ cleaned = <<>>
    /\ recleaned = <<>>

TitlesOnlyIdle ==
    /\ uniq_sources = [p \in Procs |-> <<>>]
    /\ tpos = [p \in Procs |-> 1]
    /\ seen = [p \in Procs |-> {}]
    /\ out = [p \in Procs |-> <<>>]
    /\ kpc = [p \in Procs |-> "idle"]

SnippetIdle ==
    /\ meta = EmptyDict
    /\ spos = 1
    /\ snippet = <<>>
    /\ spc = "idle"

RequestIdle ==
    /\ API_TOKEN = <<>>
    /\ authorization = NoneV
    /\ endpoint = "search"
    /\ files = <<>>
    /\ REQUESTS = <<>>
    /\ hpc = "idle"
    /\ status = 0
    /\ events = <<>>

ChatIdle ==
    /\ question = <<>>
    /\ pc_index = FALSE
    /\ retrieved = <<>>
    /\ citations = NoneV
    /\ apc = "idle"
    /\ astatus = 0
    /\ aevents = <<>>

\* Most requests against the chat store.
MaxRequests == 2

Requests == 1..MaxRequests

\* A request that has not arrived.
NoRequest ==
    [kind |-> "none", user_id |-> "", asked |-> 0, chat_id |-> 0, pos |-> "none",
     status |-> 0, calls |-> <<>>, mids |-> <<>>]

RatePreIdle ==
    /\ rnow = [p \in Procs |-> 0]
    /\ rpc = [p \in Procs |-> "idle"]

RateIdle == clock = 0 /\ RatePreIdle

SynthIdle ==
    /\ snippets = <<>>
    /\ sources_given = FALSE
    /\ MAX_SNIPPETS = 0
    /\ MAX_CONTEXT_CHARS = 0
    /\ sidx = 1
    /\ buf = <<>>
    /\ used = 0
    /\ kept = 0
    /\ context = NoneV
    /\ ypc = "idle"

StoreIdle ==
    /\ chats = {}
    /\ messages = {}
    /\ lock = 0
    /\ reqs = [r \in Requests |-> NoRequest]

\* Mutant of MatchesOrEmpty: matches iterated as it is.
MatchesOrEmptyNoDefault(ms) == ms

\* matches or []
MatchesOrEmpty(ms) == PyOr(ms, ListV(<<>>))

\* None and numbers are not iterable.
NotIterable(v) == v.t \in {"none", "num"}

\* The object the for statement iterates.
Iterated == MatchesOrEmpty(matches)

\* for m in (matches or [])
MatchList == IF Iterated.t = "list" THEN Iterated.l ELSE <<>>

\* A call _dedup_and_rank_sources(matches, top_k), at the head of its loop.
Init ==
    /\ matches \in MatchInputs
    /\ top_k \in TopKInputs
    /\ pc = "loop"
    /\ i = 1
    /\ best = <<>>
    /\ result = <<>>
    /\ exc = ""
    /\ calls = 1
    /\ TitleIdle
    /\ TitlesOnlyIdle
    /\ SnippetIdle
    /\ RequestIdle
    /\ ChatIdle
    /\ StoreIdle
    /\ RateIdle
    /\ SynthIdle

\* The for statement raises TypeError on an object that is not iterable.
ForIterRaise ==
    /\ pc = "loop"
    /\ NotIterable(Iterated)
    /\ pc' = "raised"
    /\ exc' = "TypeError"
    /\ UNCHANGED <<matches, top_k, i, best, result, calls, nonDedupVars>>

\* One pass of the loop body that completes (lines 185-193).
ForBody ==
    /\ pc = "loop"
    /\ Iterated.t = "list"
    /\ i <= Len(MatchList)
    /\ Derive(MatchList[i]).ok
    /\ best' = Store(best, Derive(MatchList[i]).v)
    /\ i' = i + 1
    /\ UNCHANGED <<matches, top_k, pc, result, exc, calls, nonDedupVars>>

\* One pass of the loop body in which a statement raises: the exception
\* leaves the function.
ForRaise ==
    /\ pc = "loop"
    /\ Iterated.t = "list"
    /\ i <= Len(MatchList)
    /\ ~Derive(MatchList[i]).ok
    /\ pc' = "raised"
    /\ exc' = Derive(MatchList[i]).exc
    /\ UNCHANGED <<matches, top_k, i, best, result, calls, nonDedupVars>>

\* After the loop: uniq = list(best.values()); uniq.sort(...); return uniq[:top_k]
Return ==
    /\ pc = "loop"
    /\ Iterated.t = "list"
    /\ i > Len(MatchList)
    /\ result' = Truncate(SortSources(best), top_k)
    /\ pc' = "done"
    /\ UNCHANGED <<matches, top_k, i, best, exc, calls, nonDedupVars>>

Next == ForBody \/ ForIterRaise \/ ForRaise \/ Return

Spec == Init /\ [][Next]_vars

\* A call _clean_title(title).
InitTitle ==
    /\ title \in TitleInputs
    /\ tpc = "call"
    /\ cleaned = <<>>
    /\ recleaned = <<>>
    /\ DedupIdle
    /\ TitlesOnlyIdle
    /\ SnippetIdle
    /\ RequestIdle
    /\ ChatIdle
    /\ StoreIdle
    /\ RateIdle
    /\ SynthIdle

\* _clean_title returns.
CleanTitleReturn ==
    /\ tpc = "call"
    /\ CleanTitle(title).ok
    /\ cleaned' = CleanTitle(title).v
    /\ tpc' = "done"
    /\ UNCHANGED <<title, recleaned, nonTitleVars>>

\* _clean_title raises (re.sub on a value that is not a str).
CleanTitleRaise ==
    /\ tpc = "call"
    /\ ~CleanTitle(title).ok
    /\ tpc' = "raised"
    /\ UNCHANGED <<title, cleaned, recleaned, nonTitleVars>>

\* The caller cleans the returned title once more: _clean_title(cleaned).
CleanTitleAgain ==
    /\ tpc = "done"
    /\ CleanTitle(StrV(cleaned)).ok
    /\ recleaned' = CleanTitle(StrV(cleaned)).v
    /\ tpc' = "again"
    /\ UNCHANGED <<title, cleaned, nonTitleVars>>

NextTitle == CleanTitleReturn \/ CleanTitleRaise \/ CleanTitleAgain

SpecTitle == InitTitle /\ [][NextTitle]_vars

\* ----------------------------------------------------- _titles_only ----
\* A source as _dedup_and_rank_sources builds it.
Source(t, lvl, page) ==
    [title |-> t, level |-> lvl, page |-> <<page>>, version |-> <<>>,
     score |-> 1, meta |-> EmptyDict]

\* Sources that share a title under different pages, and one other title.
SourcePool ==
    { Source(TitleA, L1, "5"), Source(TitleA, L1, "6"), Source(TitleB, L3, "5") }

UniformTrustCode ==
    <<"U", "n", "i", "f", "o", "r", "m", " ", "T", "r", "u", "s", "t", " ",
      "C", "o", "d", "e">>

\* The fifth scenario of the specification (one title under two pages), and
\* a list whose second dict has no "title" key.
SourceScenarios ==
    { <<Source(UniformTrustCode, L1, "1"), Source(UniformTrustCode, L1, "2")>>,
      <<Source(TitleA, L1, "5"), [level |-> L1, page |-> <<"5">>]>> }

\* Longest list of sources drawn from SourcePool.
MaxSources == 3

\* The values of the uniq_sources argument.
SourceInputs == SeqsUpTo(SourcePool, MaxSources) \cup SourceScenarios

\* Mutant of SeenOf: one set seen shared by all the invocations.
SeenShared(p) == UNION {seen[q] : q \in Procs}

\* seen, a local of the invocation p (seen, out = set(), []).
SeenOf(p) == seen[p]

\* Mutant of AddSeen: seen.add(t) forgotten.
AddSeenForgotten(sn, t) == sn

\* seen.add(t)
AddSeen(sn, t) == sn \cup {t}

\* Mutant of Emit: the title put in front of the list.
EmitInFront(o, t) == <<t>> \o o

\* out.append(t)
Emit(o, t) == Append(o, t)

\* One pass of the loop of the invocation p: t = s["title"]; if t not in
\* seen: seen.add(t); out.append(t)
TitlesBody(p) ==
    /\ kpc[p] = "loop"
    /\ tpos[p] <= Len(uniq_sources[p])
    /\ "title" \in DOMAIN uniq_sources[p][tpos[p]]
    /\ LET t == uniq_sources[p][tpos[p]].title
       IN  IF t \notin SeenOf(p)
           THEN /\ seen' = [seen EXCEPT ![p] = AddSeen(seen[p], t)]
                /\ out' = [out EXCEPT ![p] = Emit(out[p], t)]
           ELSE UNCHANGED <<seen, out>>
    /\ tpos' = [tpos EXCEPT ![p] = tpos[p] + 1]
    /\ UNCHANGED <<uniq_sources, kpc, nonTitlesOnlyVars>>

\* s["title"] raises KeyError on a dict without that key.
TitlesRaise(p) ==
    /\ kpc[p] = "loop"
    /\ tpos[p] <= Len(uniq_sources[p])
    /\ "title" \notin DOMAIN uniq_sources[p][tpos[p]]
    /\ kpc' = [kpc EXCEPT ![p] = "raised"]
    /\ UNCHANGED <<uniq_sources, tpos, seen, out, nonTitlesOnlyVars>>

\* return out
TitlesReturn(p) ==
    /\ kpc[p] = "loop"
    /\ tpos[p] > Len(uniq_sources[p])
    /\ kpc' = [kpc EXCEPT ![p] = "done"]
    /\ UNCHANGED <<uniq_sources, tpos, seen, out, nonTitlesOnlyVars>>

\* The invocation p is a call _titles_only(srcs) at the head of its loop.
TitlesOnlyCalled(p, srcs) ==
    /\ uniq_sources[p] = srcs
    /\ tpos[p] = 1
    /\ seen[p] = {}
    /\ out[p] = <<>>
    /\ kpc[p] = "loop"

\* One call _titles_only(uniq_sources), by the invocation 1.
InitTitlesOnly ==
    /\ DedupIdle
    /\ TitleIdle
    /\ SnippetIdle
    /\ RequestIdle
    /\ ChatIdle
    /\ StoreIdle
    /\ RateIdle
    /\ SynthIdle
    /\ \E srcs \in SourceInputs :
          /\ uniq_sources = [p \in Procs |-> IF p = 1 THEN srcs ELSE <<>>]
          /\ kpc = [p \in Procs |-> IF p = 1 THEN "loop" ELSE "idle"]
    /\ tpos = [p \in Procs |-> 1]
    /\ seen = [p \in Procs |-> {}]
    /\ out = [p \in Procs |-> <<>>]

NextTitlesOnly == \E p \in Procs : TitlesBody(p) \/ TitlesRaise(p) \/ TitlesReturn(p)

SpecTitlesOnly == InitTitlesOnly /\ [][NextTitlesOnly]_vars

\* ------------------------------------- repeated and concurrent calls ----
\* The dict best after the loop has run over the first n matches of l, all
\* of which complete the loop body.
RECURSIVE BestOver(_, _)
BestOver(l, n) ==
    IF n = 0 THEN <<>> ELSE Store(BestOver(l, n - 1), Derive(l[n]).v)

\* _dedup_and_rank_sources(ms, k) run from entry to exit on its own: the
\* list returned, or the first exception raised.
RankAlone(ms, k) ==
    LET it == MatchesOrEmpty(ms)
    IN  IF NotIterable(it) THEN Raise("TypeError")
        ELSE LET l == it.l
                 bad == {j \in 1..Len(l) : ~Derive(l[j]).ok}
             IN  IF bad # {}
                 THEN Raise(Derive(l[CHOOSE j \in bad : \A m \in bad : j <= m]).exc)
                 ELSE Ok(Truncate(SortSources(BestOver(l, Len(l))), k))

\* The list out after the loop has run over the first n sources of srcs.
RECURSIVE TitlesOver(_, _)
TitlesOver(srcs, n) ==
    IF n = 0 THEN <<>>
    ELSE LET o == TitlesOver(srcs, n - 1)
             t == srcs[n].title
         IN  IF \E a \in 1..Len(o) : o[a] = t THEN o ELSE Append(o, t)

\* _titles_only(srcs) run from entry to exit on its own.
TitlesAlone(srcs) ==
    IF \E j \in 1..Len(srcs) : "title" \notin DOMAIN srcs[j]
    THEN Raise("KeyError")
    ELSE Ok(TitlesOver(srcs, Len(srcs)))

\* Longest list of sources of the first concurrent invocation of
\* _titles_only.
MaxParSources == 2

\* Number of successive calls of _dedup_and_rank_sources.

MaxCalls == 2

\* Arguments of the calls made while other invocations run, and of the
\* calls after the first.
CallMatchInputs == {NoneV, ListV(<<>>), NumV(5)} \cup {ListV(l) : l \in Scenarios}

CallSourceInputs == SeqsUpTo(SourcePool, MaxParSources)

\* The second invocation's inputs: among them a list that shares its titles
\* with those of the first.
OtherSourceInputs ==
    {<<>>, <<Source(TitleB, L3, "5"), Source(TitleA, L1, "5")>>} \cup SourceScenarios

\* Mutant of NewBest: the dict of the previous call kept.
KeptBest(b) == b

\* best = {}, whatever an earlier call bound to the name.
NewBest(b) == <<>>

\* A request handler calls _dedup_and_rank_sources(ms, k) while two others
\* call _titles_only.
InitCalls ==
    /\ matches \in CallMatchInputs
    /\ top_k \in TopKInputs
    /\ pc = "loop"
    /\ i = 1
    /\ best = <<>>
    /\ result = <<>>
    /\ exc = ""
    /\ calls = 1
    /\ TitleIdle
    /\ SnippetIdle
    /\ RequestIdle
    /\ ChatIdle
    /\ StoreIdle
    /\ RateIdle
    /\ SynthIdle
    /\ \E s1 \in CallSourceInputs, s2 \in OtherSourceInputs :
          uniq_sources = [p \in Procs |-> IF p = 1 THEN s1 ELSE s2]
    /\ tpos = [p \in Procs |-> 1]
    /\ seen = [p \in Procs |-> {}]
    /\ out = [p \in Procs |-> <<>>]
    /\ kpc = [p \in Procs |-> "loop"]

\* A later request calls _dedup_and_rank_sources again, after the previous
\* call has returned or raised.
CallAgain ==
    /\ pc \in {"done", "raised"}
    /\ calls < MaxCalls
    /\ matches' \in CallMatchInputs
    /\ top_k' \in TopKInputs
    /\ pc' = "loop"
    /\ i' = 1
    /\ best' = NewBest(best)
    /\ result' = <<>>
    /\ exc' = ""
    /\ calls' = calls + 1
    /\ UNCHANGED nonDedupVars

NextCalls ==
    \/ ForBody
    \/ ForIterRaise
    \/ ForRaise
    \/ Return
    \/ \E p \in Procs : TitlesBody(p) \/ TitlesRaise(p) \/ TitlesReturn(p)

SpecCalls == InitCalls /\ [][NextCalls]_vars

\* Successive calls of _dedup_and_rank_sources.
NextRepeat == ForBody \/ ForIterRaise \/ ForRaise \/ Return \/ CallAgain

SpecRepeat == Init /\ [][NextRepeat]_vars

\* --------------------------------------------------- _extract_snippet ----
\* Mutant of SnippetKeys: the candidate keys in the opposite order.
SnippetKeysReversed == <<"passage", "body", "content", "chunk", "text">>

\* for k in ("text","chunk","content","body","passage")
SnippetKeys == <<"text", "chunk", "content", "body", "passage">>

\* Values of a key of meta: the empty and a whitespace-only str, strs with
\* whitespace around their text, a number and None.
SnippetValues ==
    { StrV(<<>>), StrV(<<" ">>), StrV(<<" ", "a", " ">>), StrV(<<"b">>),
      NumV(5), NoneV }

\* The sixth scenario of the specification: text is whitespace, chunk holds
\* the passage.
SnippetScenario ==
    [text |-> StrV(<<" ", " ", " ">>), chunk |-> StrV(<<"R", "e", "l", "e", "v", "a", "n", "t">>)]

\* The dicts passed as meta: every key absent or bound to one of the values.
MetaInputs ==
    {SnippetScenario} \cup
    UNION { [K -> SnippetValues] : K \in SUBSET {SnippetKeys[j] : j \in 1..Len(SnippetKeys)} }

\* isinstance(v, str) and v.strip()
Usable(v) == v.t = "str" /\ Strip(v.s, Whitespace) # <<>>

\* v = meta.get(k)
SnippetValue == Get(meta, SnippetKeys[spos], NoneV)

\* A pass of the loop whose test fails: the next key is examined.
SnippetSkip ==
    /\ spc = "loop"
    /\ spos <= Len(SnippetKeys)
    /\ ~Usable(SnippetValue)
    /\ spos' = spos + 1
    /\ UNCHANGED <<meta, snippet, spc, nonSnippetVars>>

\* return v.strip()
SnippetReturn ==
    /\ spc = "loop"
    /\ spos <= Len(SnippetKeys)
    /\ Usable(SnippetValue)
    /\ snippet' = Strip(SnippetValue.s, Whitespace)
    /\ spc' = "done"
    /\ UNCHANGED <<meta, spos, nonSnippetVars>>

\* return ""
SnippetDefault ==
    /\ spc = "loop"
    /\ spos > Len(SnippetKeys)
    /\ snippet' = <<>>
    /\ spc' = "done"
    /\ UNCHANGED <<meta, spos, nonSnippetVars>>

\* A call _extract_snippet(meta).
InitSnippet ==
    /\ DedupIdle
    /\ TitleIdle
    /\ TitlesOnlyIdle
    /\ RequestIdle
    /\ ChatIdle
    /\ StoreIdle
    /\ RateIdle
    /\ SynthIdle
    /\ meta \in MetaInputs
    /\ spos = 1
    /\ snippet = <<>>
    /\ spc = "loop"

NextSnippet == SnippetSkip \/ SnippetReturn \/ SnippetDefault

SpecSnippet == InitSnippet /\ [][NextSnippet]_vars

\* ------------------------------------------ /search, /rag and /review ----
BearerPrefix == <<"B", "e", "a", "r", "e", "r", " ">>

\* s.startswith(p)
StartsWith(s, p) == OccursAt(s, p, 1)

\* s.split(" ", 1)[1], for s with a space in it.
AfterFirstSpace(s) ==
    LET k == CHOOSE a \in 1..Len(s) : s[a] = " " /\ \A b \in 1..(a - 1) : s[b] # " "
    IN  From(s, k + 1)

\* Mutant of RequireAuth: the token is not compared with API_TOKEN.
RequireAuthPrefixOnly(tok, hdr) ==
    IF tok = <<>> THEN 0
    ELSE IF ~Truthy(hdr) \/ ~StartsWith(hdr.s, BearerPrefix) THEN 401
    ELSE 0

\* require_auth(auth_header) with API_TOKEN = tok: the status of the
\* HTTPException it raises, 0 when it returns.
RequireAuth(tok, hdr) ==
    IF tok = <<>> THEN 0
    ELSE IF ~Truthy(hdr) \/ ~StartsWith(hdr.s, BearerPrefix) THEN 401
    ELSE IF Strip(AfterFirstSpace(hdr.s), Whitespace) # tok THEN 403
    ELSE 0

RATE_WINDOW == 10

RATE_LIMIT == 100

\* REQUESTS = deque(maxlen=120)
RequestsMaxLen == 120

\* while REQUESTS and now - REQUESTS[0] > RATE_WINDOW: REQUESTS.popleft()
RECURSIVE PopExpired(_, _)
PopExpired(q, now) ==
    IF q # <<>> /\ now - Head(q) > RATE_WINDOW THEN PopExpired(Tail(q), now) ELSE q

\* q.append(x) on a deque with a maxlen
DequeAppend(q, x) ==
    IF Len(q) >= RequestsMaxLen THEN Append(Tail(q), x) ELSE Append(q, x)

\* Longest API_TOKEN, and longest text after the scheme of a header.
MaxTokenLen == 2

TokenAlphabet == {"t", "u", " "}

TokenInputs == SeqsUpTo(TokenAlphabet, MaxTokenLen)

\* What a header starts with: the scheme, the scheme in lower case, the
\* scheme without its space, nothing.
SchemeInputs ==
    { BearerPrefix,
      <<"b", "e", "a", "r", "e", "r", " ">>,
      <<"B", "e", "a", "r", "e", "r">>,
      <<>> }

HeaderInputs == {NoneV} \cup {StrV(sch \o tl) : sch \in SchemeInputs, tl \in TokenInputs}

\* REQUESTS when the request arrives: empty, full of calls made at time 5,
\* and full with the oldest call made at time 0.
RequestsInputs ==
    { <<>>,
      [j \in 1..RATE_LIMIT |-> 5],
      [j \in 1..RATE_LIMIT |-> IF j = 1 THEN 0 ELSE 5] }

\* time.time() at the rate-limit check
NowInputs == {5, 11, 16}

\* The files uploaded to /review: none, one of each kind, and a good one
\* in front of one that does not parse.
FilesInputs ==
    { <<>>, <<"pdf">>, <<"oversized">>, <<"unsupported">>, <<"broken_pdf">>,
      <<"pdf", "broken_pdf">> }

\* A request has reached the handler of /search, /rag or /review.
InitRequest ==
    /\ DedupIdle
    /\ TitleIdle
    /\ TitlesOnlyIdle
    /\ SnippetIdle
    /\ ChatIdle
    /\ StoreIdle
    /\ RateIdle
    /\ SynthIdle
    /\ API_TOKEN \in TokenInputs
    /\ authorization \in HeaderInputs
    /\ endpoint \in {"search", "rag", "review"}
    /\ files \in FilesInputs
    /\ endpoint # "review" => files = <<>>
    /\ REQUESTS \in RequestsInputs
    /\ hpc = "auth"
    /\ status = 0
    /\ events = <<>>

\* require_auth(authorization)
RequireAuthStep ==
    /\ hpc = "auth"
    /\ LET r == RequireAuth(API_TOKEN, authorization)
       IN  IF r = 0
           THEN hpc' = "rate" /\ status' = status
           ELSE hpc' = "done" /\ status' = r
    /\ UNCHANGED <<API_TOKEN, authorization, endpoint, files, REQUESTS, events, nonRequestVars>>

\* check_rate_limit()
CheckRateLimit ==
    /\ hpc = "rate"
    /\ events' = Append(events, "rate_limit")
    /\ \E now \in NowInputs :
          LET q == PopExpired(REQUESTS, now)
          IN  IF Len(q) >= RATE_LIMIT
              THEN /\ REQUESTS' = q
                   /\ status' = 429
                   /\ hpc' = "done"
              ELSE /\ REQUESTS' = DequeAppend(q, now)
                   /\ status' = status
                   /\ hpc' = IF endpoint = "search" THEN "embed" ELSE "store_user"
    /\ UNCHANGED <<API_TOKEN, authorization, endpoint, files, nonRequestVars>>

\* /review without files: the HTTPException raised in the try block is
\* caught by except Exception and answered 500.
ReviewNoFiles ==
    /\ hpc = "store_user"
    /\ endpoint = "review"
    /\ files = <<>>
    /\ events' = Append(events, "raised_400")
    /\ status' = 500
    /\ hpc' = "done"
    /\ UNCHANGED <<API_TOKEN, authorization, endpoint, files, REQUESTS, nonRequestVars>>

\* ensure_chat(...); insert_message(..., "user", ...)
StoreUserMessage ==
    /\ hpc = "store_user"
    /\ endpoint = "review" => files # <<>>
    /\ events' = Append(events, "db_write")
    /\ hpc' = IF endpoint = "rag" THEN "embed" ELSE "read_files"
    /\ UNCHANGED <<API_TOKEN, authorization, endpoint, files, REQUESTS, status, nonRequestVars>>

\* The HTTPException the loop over the files raises at the file f: 413 for
\* one longer than UPLOAD_MAX_BYTES, 415 for a PDF or DOCX that does not
\* parse and for any other type, "" for a file that is read.
FileError(f) ==
    CASE f = "oversized"   -> "raised_413"
      [] f = "broken_pdf"  -> "raised_415"
      [] f = "unsupported" -> "raised_415"
      [] OTHER             -> ""

\* /review reads and parses the files in order: the first HTTPException
\* raised leaves the loop, is caught by except Exception and answered 500.
ReadFiles ==
    /\ hpc = "read_files"
    /\ LET bad == {j \in 1..Len(files) : FileError(files[j]) # ""}
       IN  IF bad = {}
           THEN hpc' = "synth" /\ status' = status /\ events' = events
           ELSE /\ hpc' = "done"
                /\ status' = 500
                /\ events' = Append(events,
                                    FileError(files[CHOOSE j \in bad : \A l \in bad : j <= l]))
    /\ UNCHANGED <<API_TOKEN, authorization, endpoint, files, REQUESTS, nonRequestVars>>

\* client.embeddings.create(...)
Embed ==
    /\ hpc = "embed"
    /\ \E answered \in BOOLEAN :
          IF answered
          THEN /\ events' = Append(events, "embedding")
               /\ hpc' = "query"
               /\ status' = status
          ELSE /\ events' = events \o <<"embedding", "raised">>
               /\ hpc' = "done"
               /\ status' = 500
    /\ UNCHANGED <<API_TOKEN, authorization, endpoint, files, REQUESTS, nonRequestVars>>

\* idx.query(...)
Query ==
    /\ hpc = "query"
    /\ \E answered \in BOOLEAN :
          IF ~answered
          THEN /\ events' = events \o <<"index_query", "raised">>
               /\ hpc' = "done"
               /\ status' = 500
          ELSE /\ events' = Append(events, "index_query")
               /\ IF endpoint = "search"
                  THEN hpc' = "done" /\ status' = 200
                  ELSE hpc' = "synth" /\ status' = status
    /\ UNCHANGED <<API_TOKEN, authorization, endpoint, files, REQUESTS, nonRequestVars>>

\* synthesize_html(...): the model is called, and a failure becomes the
\* text of the answer; /rag with neither sources nor snippets returns the
\* "No relevant material" paragraph without the call.
Synthesize ==
    /\ hpc = "synth"
    /\ \E material \in BOOLEAN :
          /\ endpoint = "review" => material
          /\ events' = IF material THEN Append(events, "generation") ELSE events
    /\ hpc' = "store_advisor"
    /\ UNCHANGED <<API_TOKEN, authorization, endpoint, files, REQUESTS, status, nonRequestVars>>

\* insert_message(..., "advisor", ...); return {...}
StoreAdvisorMessage ==
    /\ hpc = "store_advisor"
    /\ events' = Append(events, "db_write")
    /\ status' = 200
    /\ hpc' = "done"
    /\ UNCHANGED <<API_TOKEN, authorization, endpoint, files, REQUESTS, nonRequestVars>>

NextRequest ==
    \/ RequireAuthStep
    \/ CheckRateLimit
    \/ ReviewNoFiles
    \/ StoreUserMessage
    \/ ReadFiles
    \/ Embed
    \/ Query
    \/ Synthesize
    \/ StoreAdvisorMessage

SpecRequest == InitRequest /\ [][NextRequest]_vars

\* ------------------------------------------------- main.py /api/chat ----
\* Matches the index answers with: one with a doc_id and a text, one with a
\* source and no text, one without metadata.
IndexMatchPool ==
    { [id |-> StrV(<<"m", "1">>), score |-> NumV(9),
       metadata |-> MapV([doc_id |-> StrV(<<"d", "1">>), text |-> StrV(<<"x">>)])],
      [id |-> StrV(<<"m", "2">>), score |-> NumV(8),
       metadata |-> MapV([source |-> StrV(<<"s", "2">>)])],
      [id |-> StrV(<<"m", "3">>), score |-> NumV(7)] }

\* Most matches in an answer of the index (the query asks for top_k=5).
MaxRetrieved == 4

IndexAnswers == SeqsUpTo(IndexMatchPool, MaxRetrieved)

\* The dict pinecone_query builds from the match m.
RetrievedItem(m) ==
    LET md == PyOr(Get(m, "metadata", NoneV), MapV(EmptyDict)).d
    IN  [id    |-> PyOr(PyOr(Get(md, "doc_id", NoneV), Get(md, "source", NoneV)),
                        Get(m, "id", NoneV)),
         score |-> Get(m, "score", NoneV),
         text  |-> PyOr(Get(md, "text", NoneV), StrV(<<>>))]

\* 3 of retrieved[:3]
CitationLimit == 3

\* Mutant of CitationsOf: every retrieved item cited.
CitationsOfAll(r) == [j \in 1..Len(r) |-> [id |-> r[j].id, score |-> r[j].score]]

\* [{"id": m["id"], "score": m["score"]} for m in retrieved[:3]]
CitationsOf(r) ==
    [j \in 1..(IF Len(r) < CitationLimit THEN Len(r) ELSE CitationLimit) |->
        [id |-> r[j].id, score |-> r[j].score]]

\* A request has reached api_chat, its message read and stripped.
InitChat ==
    /\ DedupIdle
    /\ TitleIdle
    /\ TitlesOnlyIdle
    /\ SnippetIdle
    /\ RequestIdle
    /\ StoreIdle
    /\ RateIdle
    /\ SynthIdle
    /\ question \in {<<>>, <<"q">>}
    /\ pc_index \in BOOLEAN
    /\ retrieved = <<>>
    /\ citations = NoneV
    /\ apc = "start"
    /\ astatus = 0
    /\ aevents = <<>>

\* if not question: return JSONResponse({"reply": "Please ask a question."})
ChatNoQuestion ==
    /\ apc = "start"
    /\ question = <<>>
    /\ apc' = "done"
    /\ astatus' = 200
    /\ UNCHANGED <<question, pc_index, retrieved, citations, aevents, nonChatVars>>

\* Mutant of ChatEmbed: the request goes on after a failed embedding.
ChatEmbedGoesOn ==
    /\ apc = "start"
    /\ question # <<>>
    /\ \E answered \in BOOLEAN :
          aevents' = IF answered THEN Append(aevents, "embedding")
                     ELSE aevents \o <<"embedding", "raised">>
    /\ apc' = "retrieve"
    /\ UNCHANGED <<question, pc_index, retrieved, citations, astatus, nonChatVars>>

\* q_emb = embed_text(question), answered 500 when it raises
ChatEmbed ==
    /\ apc = "start"
    /\ question # <<>>
    /\ \E answered \in BOOLEAN :
          IF answered
          THEN /\ aevents' = Append(aevents, "embedding")
               /\ apc' = "retrieve"
               /\ astatus' = astatus
          ELSE /\ aevents' = aevents \o <<"embedding", "raised">>
               /\ apc' = "done"
               /\ astatus' = 500
    /\ UNCHANGED <<question, pc_index, retrieved, citations, nonChatVars>>

\* retrieved = pinecone_query(...) without an index: no call, [].
ChatNoIndex ==
    /\ apc = "retrieve"
    /\ ~pc_index
    /\ retrieved' = <<>>
    /\ apc' = "generate"
    /\ UNCHANGED <<question, pc_index, citations, astatus, aevents, nonChatVars>>

\* retrieved = pinecone_query(...): the answer converted.
ChatRetrieve ==
    /\ apc = "retrieve"
    /\ pc_index
    /\ \E ans \in IndexAnswers :
          retrieved' = [j \in 1..Len(ans) |-> RetrievedItem(ans[j])]
    /\ aevents' = Append(aevents, "index_query")
    /\ apc' = "generate"
    /\ UNCHANGED <<question, pc_index, citations, astatus, nonChatVars>>

\* pinecone_query raises: except Exception: retrieved = []
ChatRetrieveRaises ==
    /\ apc = "retrieve"
    /\ pc_index
    /\ retrieved' = <<>>
    /\ aevents' = aevents \o <<"index_query", "raised">>
    /\ apc' = "generate"
    /\ UNCHANGED <<question, pc_index, citations, astatus, nonChatVars>>

\* The chat completion, answered 500 when it raises; else the reply with
\* its citations.
ChatGenerate ==
    /\ apc = "generate"
    /\ \E answered \in BOOLEAN :
          IF answered
          THEN /\ aevents' = Append(aevents, "generation")
               /\ citations' = ListV(CitationsOf(retrieved))
               /\ astatus' = 200
          ELSE /\ aevents' = aevents \o <<"generation", "raised">>
               /\ citations' = citations
               /\ astatus' = 500
    /\ apc' = "done"
    /\ UNCHANGED <<question, pc_index, retrieved, nonChatVars>>

NextChat ==
    \/ ChatNoQuestion
    \/ ChatEmbed
    \/ ChatNoIndex
    \/ ChatRetrieve
    \/ ChatRetrieveRaises
    \/ ChatGenerate

SpecChat == InitChat /\ [][NextChat]_vars

\* A request to /search, /rag or /review of trust_rag_api.py, or one to
\* /api/chat of main.py.
InitEither == InitRequest \/ InitChat

NextEither == NextRequest \/ NextChat

SpecEither == InitEither /\ [][NextEither]_vars

\* -------------------------------------------------------- chat store ----
\* The values of the X-User-Id header.
Users == {"u1", "u2"}

\* str(uuid.uuid4()): the k-th id the request r draws, unlike every other.
NewId(r, k) == 4 * r + k

\* An id no chat has.
MissingId == NewId(MaxRequests + 1, 1)

\* The chat_id a request supplies: none (0), the id of a stored chat, or an
\* id no chat has.
ChatIdInputs == {0, MissingId} \cup {c.id : c \in chats}

\* Mutant of OwnsChat: the user_id is left out of the SELECT.
ChatExists(cs, cid, u) == \E c \in cs : c.id = cid

\* SELECT id FROM chats WHERE id=? AND user_id=?  finds a row.
OwnsChat(cs, cid, u) == \E c \in cs : c.id = cid /\ c.user_id = u

\* Mutant of RolledBack: the deletion of the messages outlives the close.
DeletionKept(ms, cid) == {m \in ms : m.chat_id # cid}

\* conn.close() without commit: the DELETE of the messages of the chat cid,
\* made in the open transaction, is rolled back.
RolledBack(ms, cid) == ms

\* A /rag or /review request by the user u with the chat_id cid has passed
\* require_auth and check_rate_limit.
Arrive(r) ==
    /\ reqs[r].kind = "none"
    /\ \A q \in 1..(r - 1) : reqs[q].kind # "none"
    /\ \E k \in {"rag", "review"}, u \in Users, cid \in ChatIdInputs :
          reqs' = [reqs EXCEPT ![r] =
                      [NoRequest EXCEPT !.kind = k, !.user_id = u, !.asked = cid,
                                        !.chat_id = cid,
                                        !.pos = IF k = "rag" THEN "ensure" ELSE "files"]]
    /\ UNCHANGED <<chats, messages, lock, nonStoreVars>>

\* A DELETE /chats/{chat_id} request by the user u.
ArriveDelete(r) ==
    /\ reqs[r].kind = "none"
    /\ \A q \in 1..(r - 1) : reqs[q].kind # "none"
    /\ \E u \in Users, cid \in ChatIdInputs \ {0} :
          reqs' = [reqs EXCEPT ![r] =
                      [NoRequest EXCEPT !.kind = "delete", !.user_id = u, !.asked = cid,
                                        !.chat_id = cid,
                                        !.pos = "delete"]]
    /\ UNCHANGED <<chats, messages, lock, nonStoreVars>>

\* /review: if not files: raise HTTPException(400), answered 500.
ReviewFiles(r) ==
    /\ reqs[r].pos = "files"
    /\ \E uploaded \in BOOLEAN :
          reqs' = [reqs EXCEPT ![r] =
                      IF uploaded THEN [@ EXCEPT !.pos = "ensure"]
                      ELSE [@ EXCEPT !.pos = "done", !.status = 500]]
    /\ UNCHANGED <<chats, messages, lock, nonStoreVars>>

\* chat_id = ensure_chat(conn, user_id, chat_id), the chat found.
EnsureChatFound(r) ==
    /\ reqs[r].pos = "ensure"
    /\ reqs[r].chat_id # 0
    /\ OwnsChat(chats, reqs[r].chat_id, reqs[r].user_id)
    /\ reqs' = [reqs EXCEPT ![r].pos = "store_user"]
    /\ UNCHANGED <<chats, messages, lock, nonStoreVars>>

\* chat_id = ensure_chat(conn, user_id, chat_id), a chat inserted under a
\* new id and committed.
EnsureChatNew(r) ==
    /\ reqs[r].pos = "ensure"
    /\ ~(reqs[r].chat_id # 0 /\ OwnsChat(chats, reqs[r].chat_id, reqs[r].user_id))
    /\ lock = 0
    /\ chats' = chats \cup {[id |-> NewId(r, 1), user_id |-> reqs[r].user_id]}
    /\ reqs' = [reqs EXCEPT ![r].pos = "store_user", ![r].chat_id = NewId(r, 1)]
    /\ UNCHANGED <<messages, lock, nonStoreVars>>

\* insert_message(conn, chat_id, user_id, "user", ...): the row inserted
\* and committed; the UPDATE of the chat changes no column kept here.
StoreUser(r) ==
    /\ reqs[r].pos = "store_user"
    /\ lock = 0
    /\ messages' = messages \cup
          {[id |-> NewId(r, 2), chat_id |-> reqs[r].chat_id, user_id |-> reqs[r].user_id,
            role |-> "user"]}
    /\ reqs' = [reqs EXCEPT ![r].mids = Append(@, NewId(r, 2)),
                            ![r].pos = IF reqs[r].kind = "rag" THEN "embed" ELSE "read"]
    /\ UNCHANGED <<chats, lock, nonStoreVars>>

\* /review reads its files; an HTTPException of the loop is answered 500.
ReviewRead(r) ==
    /\ reqs[r].pos = "read"
    /\ \E parsed \in BOOLEAN :
          reqs' = [reqs EXCEPT ![r] =
                      IF parsed THEN [@ EXCEPT !.pos = "synth"]
                      ELSE [@ EXCEPT !.pos = "done", !.status = 500]]
    /\ UNCHANGED <<chats, messages, lock, nonStoreVars>>

\* Mutant of RagEmbed: the handler goes on after a failed embedding.
RagEmbedGoesOn(r) ==
    /\ reqs[r].pos = "embed"
    /\ \E answered \in BOOLEAN :
          reqs' = [reqs EXCEPT ![r] =
                      IF answered
                      THEN [@ EXCEPT !.pos = "query", !.calls = Append(@, "embedding")]
                      ELSE [@ EXCEPT !.pos = "query",
                                     !.calls = @ \o <<"embedding", "raised">>]]
    /\ UNCHANGED <<chats, messages, lock, nonStoreVars>>

\* /rag: client.embeddings.create(...); except Exception answers 500.
RagEmbed(r) ==
    /\ reqs[r].pos = "embed"
    /\ \E answered \in BOOLEAN :
          reqs' = [reqs EXCEPT ![r] =
                      IF answered
                      THEN [@ EXCEPT !.pos = "query", !.calls = Append(@, "embedding")]
                      ELSE [@ EXCEPT !.pos = "done", !.status = 500,
                                     !.calls = @ \o <<"embedding", "raised">>]]
    /\ UNCHANGED <<chats, messages, lock, nonStoreVars>>

\* /rag: idx.query(...); except Exception answers 500.
RagQuery(r) ==
    /\ reqs[r].pos = "query"
    /\ \E answered \in BOOLEAN :
          reqs' = [reqs EXCEPT ![r] =
                      IF answered
                      THEN [@ EXCEPT !.pos = "synth", !.calls = Append(@, "index_query")]
                      ELSE [@ EXCEPT !.pos = "done", !.status = 500,
                                     !.calls = @ \o <<"index_query", "raised">>]]
    /\ UNCHANGED <<chats, messages, lock, nonStoreVars>>

\* synthesize_html(...): a failure of the model call inside it is caught
\* there and returned as text; any other exception answers 500.
Synth(r) ==
    /\ reqs[r].pos = "synth"
    /\ \E answered \in BOOLEAN :
          reqs' = [reqs EXCEPT ![r] =
                      IF answered
                      THEN [@ EXCEPT !.pos = "store_advisor", !.calls = Append(@, "synthesis")]
                      ELSE [@ EXCEPT !.pos = "done", !.status = 500,
                                     !.calls = @ \o <<"synthesis", "raised">>]]
    /\ UNCHANGED <<chats, messages, lock, nonStoreVars>>

\* insert_message(conn, chat_id, None, "advisor", ...); return {...}.  The
\* INSERT names no existing chat row, and the UPDATE of a chat that is gone
\* changes no row.
StoreAdvisor(r) ==
    /\ reqs[r].pos = "store_advisor"
    /\ lock = 0
    /\ messages' = messages \cup
          {[id |-> NewId(r, 3), chat_id |-> reqs[r].chat_id, user_id |-> "", role |-> "advisor"]}
    /\ reqs' = [reqs EXCEPT ![r].mids = Append(@, NewId(r, 3)), ![r].pos = "done",
                            ![r].status = 200]
    /\ UNCHANGED <<chats, lock, nonStoreVars>>

\* DELETE FROM messages WHERE chat_id=?  opens a write transaction on the
\* handler's connection; nothing is committed yet.
DeleteMessages(r) ==
    /\ reqs[r].pos = "delete"
    /\ lock = 0
    /\ lock' = r
    /\ reqs' = [reqs EXCEPT ![r].pos = "delete_chat"]
    /\ UNCHANGED <<chats, messages, nonStoreVars>>

\* DELETE FROM chats WHERE id=? AND user_id=?: with no row deleted the
\* connection is closed uncommitted and 404 raised, else both deletions are
\* committed.
DeleteChat(r) ==
    /\ reqs[r].pos = "delete_chat"
    /\ lock = r
    /\ IF OwnsChat(chats, reqs[r].chat_id, reqs[r].user_id)
       THEN /\ chats' = {c \in chats : c.id # reqs[r].chat_id}
            /\ messages' = {m \in messages : m.chat_id # reqs[r].chat_id}
            /\ reqs' = [reqs EXCEPT ![r].pos = "done", ![r].status = 200]
       ELSE /\ chats' = chats
            /\ messages' = RolledBack(messages, reqs[r].chat_id)
            /\ reqs' = [reqs EXCEPT ![r].pos = "done", ![r].status = 404]
    /\ lock' = 0
    /\ UNCHANGED nonStoreVars

\* No request has arrived and the store is empty.
InitStore ==
    /\ DedupIdle
    /\ TitleIdle
    /\ TitlesOnlyIdle
    /\ SnippetIdle
    /\ RequestIdle
    /\ ChatIdle
    /\ StoreIdle
    /\ RateIdle
    /\ SynthIdle

\* /rag and /review requests, concurrently.
NextChats ==
    \E r \in Requests :
        \/ Arrive(r)
        \/ ReviewFiles(r)
        \/ EnsureChatFound(r)
        \/ EnsureChatNew(r)
        \/ StoreUser(r)
        \/ ReviewRead(r)
        \/ RagEmbed(r)
        \/ RagQuery(r)
        \/ Synth(r)
        \/ StoreAdvisor(r)

SpecChats == InitStore /\ [][NextChats]_vars

\* /rag, /review and DELETE /chats/{chat_id} requests, concurrently.
NextStore ==
    \/ NextChats
    \/ \E r \in Requests : ArriveDelete(r) \/ DeleteMessages(r) \/ DeleteChat(r)

SpecStore == InitStore /\ [][NextStore]_vars

\* ------------------------------------- check_rate_limit on worker threads ----
\* The latest time the clock reaches.
MaxClock == 12

\* REQUESTS when the threads start: the calls admitted before, all at time
\* 0, up to a full window.
RateRequestsInputs ==
    { [j \in 1..n |-> 0] : n \in {0, 1, RATE_LIMIT - 2, RATE_LIMIT - 1, RATE_LIMIT} }

\* Threads start within the window of the earlier calls, and past it.
ClockInputs == {1, MaxClock - 1}

\* Time passes.
Tick ==
    /\ clock < MaxClock
    /\ clock' = clock + 1
    /\ UNCHANGED <<rnow, rpc, REQUESTS, nonRateVars>>

\* now = time.time()
RateNow(p) ==
    /\ rpc[p] = "idle"
    /\ rnow' = [rnow EXCEPT ![p] = clock]
    /\ rpc' = [rpc EXCEPT ![p] = "while"]
    /\ UNCHANGED <<clock, REQUESTS, nonRateVars>>

\* while REQUESTS and now - REQUESTS[0] > RATE_WINDOW:
RateWhile(p) ==
    /\ rpc[p] = "while"
    /\ rpc' = [rpc EXCEPT ![p] =
                  IF REQUESTS # <<>> /\ rnow[p] - Head(REQUESTS) > RATE_WINDOW
                  THEN "popleft" ELSE "if"]
    /\ UNCHANGED <<clock, rnow, REQUESTS, nonRateVars>>

\* REQUESTS.popleft(): IndexError on the deque another thread has emptied
\* since the test.
RatePopleft(p) ==
    /\ rpc[p] = "popleft"
    /\ IF REQUESTS = <<>>
       THEN /\ rpc' = [rpc EXCEPT ![p] = "index_error"]
            /\ REQUESTS' = REQUESTS
       ELSE /\ rpc' = [rpc EXCEPT ![p] = "while"]
            /\ REQUESTS' = Tail(REQUESTS)
    /\ UNCHANGED <<clock, rnow, nonRateVars>>

\* if len(REQUESTS) >= RATE_LIMIT: raise HTTPException(status_code=429, ...)
RateIf(p) ==
    /\ rpc[p] = "if"
    /\ rpc' = [rpc EXCEPT ![p] = IF Len(REQUESTS) >= RATE_LIMIT THEN "raised_429" ELSE "append"]
    /\ UNCHANGED <<clock, rnow, REQUESTS, nonRateVars>>

\* REQUESTS.append(now)
RateAppend(p) ==
    /\ rpc[p] = "append"
    /\ REQUESTS' = DequeAppend(REQUESTS, rnow[p])
    /\ rpc' = [rpc EXCEPT ![p] = "admitted"]
    /\ UNCHANGED <<clock, rnow, nonRateVars>>

\* Two worker threads are about to call check_rate_limit.
InitRate ==
    /\ DedupIdle
    /\ TitleIdle
    /\ TitlesOnlyIdle
    /\ SnippetIdle
    /\ API_TOKEN = <<>>
    /\ authorization = NoneV
    /\ endpoint = "search"
    /\ files = <<>>
    /\ REQUESTS \in RateRequestsInputs
    /\ hpc = "idle"
    /\ status = 0
    /\ events = <<>>
    /\ ChatIdle
    /\ StoreIdle
    /\ clock \in ClockInputs
    /\ RatePreIdle
    /\ SynthIdle

NextRate ==
    \/ Tick
    \/ \E p \in Procs :
          \/ RateNow(p)
          \/ RateWhile(p)
          \/ RatePopleft(p)
          \/ RateIf(p)
          \/ RateAppend(p)

SpecRate == InitRate /\ [][NextRate]_vars

\* ------------------------------------------- synthesize_html: the context ----
\* Most snippets handed to synthesize_html.
MaxSnippetCount == 3

\* Largest MAX_SNIPPETS and MAX_CONTEXT_CHARS of the environment.
MaxSnippetsLimit == 2

MaxCharsLimit == 4

\* Snippets: empty, blank, and of one, two (padded) and three characters.
SnippetPool ==
    { <<>>, <<" ">>, <<"a">>, <<" ", "b", "b", " ">>, <<"c", "c", "c">> }

SnippetsInputs == SeqsUpTo(SnippetPool, MaxSnippetCount)

\* "\n---\n"
ContextSeparator == <<"\n", "-", "-", "-", "\n">>

\* sep.join(parts)
RECURSIVE Join(_, _)
Join(sep, parts) ==
    IF parts = <<>> THEN <<>>
    ELSE IF Len(parts) = 1 THEN parts[1]
    ELSE parts[1] \o sep \o Join(sep, Tail(parts))

\* synthesize_html(question, uniq_sources, snippets) is called.
InitSynth ==
    /\ DedupIdle
    /\ TitleIdle
    /\ TitlesOnlyIdle
    /\ SnippetIdle
    /\ RequestIdle
    /\ ChatIdle
    /\ StoreIdle
    /\ RateIdle
    /\ snippets \in SnippetsInputs
    /\ sources_given \in BOOLEAN
    /\ MAX_SNIPPETS \in 0..MaxSnippetsLimit
    /\ MAX_CONTEXT_CHARS \in 0..MaxCharsLimit
    /\ sidx = 1
    /\ buf = <<>>
    /\ used = 0
    /\ kept = 0
    /\ context = NoneV
    /\ ypc = "start"

\* if not snippets and not uniq_sources: return "<p>No relevant material
\* found in the Trust-Law knowledge base.</p>"
SynthNoMaterial ==
    /\ ypc = "start"
    /\ snippets = <<>> /\ ~sources_given
    /\ ypc' = "no_material"
    /\ UNCHANGED <<snippets, sources_given, MAX_SNIPPETS, MAX_CONTEXT_CHARS, sidx, buf, used,
                   kept, context, nonSynthVars>>

\* buf, used, kept = [], 0, 0
SynthStart ==
    /\ ypc = "start"
    /\ ~(snippets = <<>> /\ ~sources_given)
    /\ ypc' = "for"
    /\ UNCHANGED <<snippets, sources_given, MAX_SNIPPETS, MAX_CONTEXT_CHARS, sidx, buf, used,
                   kept, context, nonSynthVars>>

\* One pass of the body of  for s in snippets.
SynthFor ==
    /\ ypc = "for"
    /\ sidx <= Len(snippets)
    /\ LET s == Strip(snippets[sidx], Whitespace)
       IN  IF s = <<>>
           THEN /\ sidx' = sidx + 1
                /\ UNCHANGED <<buf, used, kept, ypc>>
           ELSE IF used + Len(s) > MAX_CONTEXT_CHARS
           THEN /\ ypc' = "join"
                /\ UNCHANGED <<sidx, buf, used, kept>>
           ELSE /\ buf' = Append(buf, s)
                /\ used' = used + Len(s)
                /\ kept' = kept + 1
                /\ sidx' = sidx + 1
                /\ ypc' = IF kept + 1 >= MAX_SNIPPETS THEN "join" ELSE "for"
    /\ UNCHANGED <<snippets, sources_given, MAX_SNIPPETS, MAX_CONTEXT_CHARS, context,
                   nonSynthVars>>

\* The loop ends with the list.
SynthForEnd ==
    /\ ypc = "for"
    /\ sidx > Len(snippets)
    /\ ypc' = "join"
    /\ UNCHANGED <<snippets, sources_given, MAX_SNIPPETS, MAX_CONTEXT_CHARS, sidx, buf, used,
                   kept, context, nonSynthVars>>

\* context = "\n---\n".join(buf)
SynthJoin ==
    /\ ypc = "join"
    /\ context' = StrV(Join(ContextSeparator, buf))
    /\ ypc' = "model"
    /\ UNCHANGED <<snippets, sources_given, MAX_SNIPPETS, MAX_CONTEXT_CHARS, sidx, buf, used,
                   kept, nonSynthVars>>

\* client.chat.completions.create(...) with the context in the user
\* message; the text, or the note of its failure, is returned.
SynthModel ==
    /\ ypc = "model"
    /\ ypc' = "returned"
    /\ UNCHANGED <<snippets, sources_given, MAX_SNIPPETS, MAX_CONTEXT_CHARS, sidx, buf, used,
                   kept, context, nonSynthVars>>

NextSynth ==
    \/ SynthNoMaterial
    \/ SynthStart
    \/ SynthFor
    \/ SynthForEnd
    \/ SynthJoin
    \/ SynthModel

SpecSynth == InitSynth /\ [][NextSynth]_vars

\* ----------------------------------------------------------- claims ----
\* The call _dedup_and_rank_sources(matches, top_k) has returned result.
Returned == pc = "done"

\* The entry the loop body derives from the j-th match (when it completes).
Derived(j) == Derive(MatchList[j]).v

\* The positions of the matches whose derived identity key is k.
PositionsOf(k) == {j \in 1..Len(MatchList) : KeyOf(Derived(j)) = k}

\* The identity keys derived from the input, and those of the result.
InputKeys == {KeyOf(Derived(j)) : j \in 1..Len(MatchList)}

ResultKeys == {KeyOf(result[a]) : a \in 1..Len(result)}

Min(a, b) == IF a < b THEN a ELSE b

\* C1: the list returned by _dedup_and_rank_sources holds no two entries
\* with the same (title, level, page, version) tuple.
C1_NoDuplicateKeys ==
    Returned =>
        \A a, b \in 1..Len(result) :
            a # b => <<result[a].title, result[a].level, result[a].page, result[a].version>>
                     # <<result[b].title, result[b].level, result[b].page, result[b].version>>

\* Two matches of the input derived the same key and the result holds at
\* least two entries.
C1_Witness ==
    /\ Returned
    /\ Len(result) >= 2
    /\ \E j \in 1..Len(MatchList) : Cardinality(PositionsOf(KeyOf(Derived(j)))) >= 2

\* C2: the score of every returned entry is the maximum of the scores of
\* the input matches whose derived key is the entry's key.
C2_MaxScore ==
    Returned =>
        \A a \in 1..Len(result) :
            LET js == PositionsOf(KeyOf(result[a]))
            IN  /\ \E j \in js : Derived(j).score = result[a].score
                /\ \A j \in js : Derived(j).score <= result[a].score

\* A returned entry whose key was derived from a lower score first and a
\* higher score later.
C2_Witness ==
    /\ Returned
    /\ \E a \in 1..Len(result) :
          \E j, l \in PositionsOf(KeyOf(result[a])) :
              j < l /\ Derived(j).score < Derived(l).score

\* The tier of the claim: L1..L5 are 1..5, any other level is 99.
ClaimTier(level) ==
    CASE level = <<"L", "1">> -> 1
      [] level = <<"L", "2">> -> 2
      [] level = <<"L", "3">> -> 3
      [] level = <<"L", "4">> -> 4
      [] level = <<"L", "5">> -> 5
      [] OTHER -> 99

\* C3: the returned list is sorted by ascending tier and, within a tier, by
\* descending score.
C3_Sorted ==
    Returned =>
        \A a, b \in 1..Len(result) :
            a < b =>
                /\ ClaimTier(result[a].level) <= ClaimTier(result[b].level)
                /\ ClaimTier(result[a].level) = ClaimTier(result[b].level)
                      => result[a].score >= result[b].score

\* A result whose order differs from the insertion order of best, with an
\* unrecognized level behind a recognized one, and two entries of one tier.
C3_Witness ==
    /\ Returned
    /\ result # SubSeq(best, 1, Len(result))
    /\ \E a, b \in 1..Len(result) :
          a < b /\ ClaimTier(result[a].level) < 99 /\ ClaimTier(result[b].level) = 99
    /\ \E a, b \in 1..Len(result) :
          /\ a < b
          /\ ClaimTier(result[a].level) = ClaimTier(result[b].level)
          /\ result[a].score > result[b].score

\* C4: for a non-negative top_k the result holds at most top_k entries and at
\* most as many as there are distinct identity keys derived from the input.
C4_LengthBounds ==
    (Returned /\ top_k >= 0) =>
        /\ Len(result) <= top_k
        /\ Len(result) <= Cardinality(InputKeys)

\* More distinct keys than top_k: the truncation acts.
C4_Witness ==
    /\ Returned
    /\ top_k >= 1
    /\ Cardinality(InputKeys) > top_k
    /\ Len(result) = top_k

\* C5 as stated, for a positive top_k: the number of distinct keys of the
\* output equals the number of distinct keys derived from the input, and
\* never exceeds top_k.
C5_AsStated ==
    (Returned /\ top_k >= 1) =>
        /\ Cardinality(ResultKeys) = Cardinality(InputKeys)
        /\ Cardinality(ResultKeys) <= top_k

\* C5 amended: for a non-negative top_k the number of distinct keys of the
\* output is the smaller of top_k and the number of distinct keys derived
\* from the input.
C5_DistinctKeyCount ==
    (Returned /\ top_k >= 0) =>
        Cardinality(ResultKeys) = Min(top_k, Cardinality(InputKeys))

\* Matches that collapse (some share a key) to more distinct keys than a
\* positive top_k: the output holds top_k distinct keys, fewer than the input.
C5_Witness ==
    /\ Returned
    /\ top_k >= 1
    /\ Len(MatchList) > Cardinality(InputKeys)
    /\ Cardinality(InputKeys) > top_k
    /\ Cardinality(ResultKeys) = top_k

\* a outranks b: a strictly lower tier number, or the same tier and a
\* strictly higher score.
Outranks(a, b) ==
    \/ ClaimTier(a.level) < ClaimTier(b.level)
    \/ ClaimTier(a.level) = ClaimTier(b.level) /\ a.score > b.score

\* The third scenario of the specification: three L1 sources with scores
\* 0.5, 0.9, 0.7 and two L3 sources with scores 0.99, 0.95 (times 100).
TierScenario ==
    ListV(<<TierMatch(L1, "1", 50), TierMatch(L1, "2", 90), TierMatch(L1, "3", 70),
            TierMatch(L3, "4", 99), TierMatch(L3, "5", 95)>>)

\* C6: no match whose key is omitted from the result outranks an entry of
\* the result; in the tier scenario at top_k = 3 the result is the three L1
\* sources in the order 0.9, 0.7, 0.5.
C6_TruncationKeepsBest ==
    Returned =>
        /\ \A j \in 1..Len(MatchList) :
              KeyOf(Derived(j)) \notin ResultKeys
                  => \A a \in 1..Len(result) : ~Outranks(Derived(j), result[a])
        /\ (matches = TierScenario /\ top_k = 3)
              => /\ Len(result) = 3
                 /\ \A a \in 1..3 : result[a].level = <<"L", "1">>
                 /\ <<result[1].score, result[2].score, result[3].score>> = <<90, 70, 50>>

\* The tier scenario has returned at top_k = 3: the omitted L3 sources carry
\* higher scores than the L1 sources kept.
C6_Witness ==
    /\ Returned
    /\ matches = TierScenario
    /\ top_k = 3
    /\ \E j \in 1..Len(MatchList) :
          /\ KeyOf(Derived(j)) \notin ResultKeys
          /\ \A a \in 1..Len(result) : Derived(j).score > result[a].score

\* The position of the earliest of the first n matches that has the key and
\* the score of the entry e.
EarliestWith(e, n) ==
    LET js == {j \in 1..n : KeyOf(Derived(j)) = KeyOf(e) /\ Derived(j).score = e.score}
    IN  CHOOSE j \in js : \A l \in js : j <= l

\* C7: at every point of the loop the entry stored for a key is the one
\* derived from the earliest match, among those seen, that carries the
\* maximum score of that key, with that match's metadata; and each returned
\* entry is such a stored entry.
C7_TiesKeepEarliest ==
    /\ pc \in {"loop", "done"} =>
          \A a \in 1..Len(best) :
              /\ \A j \in 1..(i - 1) :
                    KeyOf(Derived(j)) = KeyOf(best[a]) => Derived(j).score <= best[a].score
              /\ \E j \in 1..(i - 1) :
                    KeyOf(Derived(j)) = KeyOf(best[a]) /\ Derived(j).score = best[a].score
              /\ best[a] = Derived(EarliestWith(best[a], i - 1))
    /\ Returned =>
          \A a \in 1..Len(result) :
              /\ result[a].meta = MetaOf(MatchList[EarliestWith(result[a], Len(MatchList))]).d
              /\ \E b \in 1..Len(best) : result[a] = best[b]

\* A returned entry whose key and maximum score are carried by two matches
\* with different metadata.
C7_Witness ==
    /\ Returned
    /\ \E a \in 1..Len(result) :
          \E j, l \in PositionsOf(KeyOf(result[a])) :
              /\ j < l
              /\ Derived(j).score = result[a].score
              /\ Derived(l).score = result[a].score
              /\ Derived(j).meta # Derived(l).meta

\* A match with no score whose metadata holds none of the title, parent
\* document, level, page and version fields.
BareMatch(m) ==
    /\ "score" \notin DOMAIN m.f
    /\ MetaOf(m).t = "map"
    /\ DOMAIN MetaOf(m).d
          \cap {"title", "doc_parent", "doc_level", "level", "page", "version", "v"} = {}

\* The entry of placeholders: "Unknown", "N/A", "?", "" and 0.0.
IsPlaceholderEntry(e) ==
    /\ e.title = <<"U", "n", "k", "n", "o", "w", "n">>
    /\ e.level = <<"N", "/", "A">>
    /\ e.page = <<"?">>
    /\ e.version = <<>>
    /\ e.score = 0

\* C8: a call on a non-empty list of bare matches with a positive top_k
\* returns, and its result holds the entry of placeholders.
C8_BareMatchKept ==
    ( /\ pc \in {"done", "raised"}
      /\ top_k >= 1
      /\ MatchList # <<>>
      /\ \A j \in 1..Len(MatchList) : BareMatch(MatchList[j]) )
    => /\ Returned
       /\ \E a \in 1..Len(result) : IsPlaceholderEntry(result[a])

\* C9: _dedup_and_rank_sources never raises.
C9_NeverRaises == pc # "raised"

\* C10: every result of _clean_title is a non-empty string.
C10_CleanTitleNonEmpty == tpc = "done" => cleaned # <<>>

\* The tier labels L1..L5.
TierLabels == {<<"L", d>> : d \in {"1", "2", "3", "4", "5"}}

\* C11 as stated: the level of every returned entry is one of L1..L5 or "N/A".
C11_AsStated ==
    Returned =>
        \A a \in 1..Len(result) : result[a].level \in TierLabels \cup {<<"N", "/", "A">>}

\* The level field of a metadata: doc_level when present and non-empty, else
\* level when present and non-empty, else None.
LevelField(md) ==
    IF "doc_level" \in DOMAIN md /\ Truthy(md.doc_level) THEN md.doc_level
    ELSE IF "level" \in DOMAIN md /\ Truthy(md.level) THEN md.level
    ELSE NoneV

\* C11 amended: the level of every returned entry is the level field of a
\* match of its key with the surrounding whitespace stripped, whatever its
\* text, and "N/A" when the field is absent or empty.
C11_LevelVerbatim ==
    Returned =>
        \A a \in 1..Len(result) :
            \E j \in PositionsOf(KeyOf(result[a])) :
                LET f == LevelField(MetaOf(MatchList[j]).d)
                IN  result[a].level =
                        IF f.t = "none" THEN <<"N", "/", "A">> ELSE Strip(f.s, Whitespace)

\* A returned entry whose level field is present and not one of L1..L5: the
\* entry carries it verbatim.
C11_Witness ==
    /\ Returned
    /\ \E a \in 1..Len(result) :
          /\ result[a].level \notin TierLabels \cup {<<"N", "/", "A">>}
          /\ \E j \in PositionsOf(KeyOf(result[a])) :
                LevelField(MetaOf(MatchList[j]).d) = StrV(result[a].level)

\* C12: _clean_title is idempotent.  Stated for the titles that do not
\* clean to the empty string, so that the empty result of C10 is not what
\* refutes it: cleaning the cleaned title returns it unchanged.
C12_Idempotent == (tpc = "again" /\ cleaned # <<>>) => recleaned = cleaned

\* The cleaned title the first scenario of the specification expects.
GilbertTitle ==
    <<"G", "i", "l", "b", "e", "r", "t", " ", "L", "a", "w", " ",
      "S", "u", "m", "m", "a", "r", "i", "e", "s">>

\* The first scenario of the specification: two matches with the raw Gilbert
\* title, level L2, page 5 and the scores 0.81 and 0.93 (times 100).
GilbertScenario == ListV(<<Dict(GilbertMeta, NumV(81)), Dict(GilbertMeta, NumV(93))>>)

\* C13: the raw title L2_<Name>_<hex run>_OCR cleans to <Name>, and the two
\* matches of the scenario collapse into one entry with title "Gilbert Law
\* Summaries", level "L2", page "5" and score 0.93.
C13_GilbertCollapses ==
    (Returned /\ matches = GilbertScenario /\ top_k >= 1) =>
        /\ Len(result) = 1
        /\ result[1].title = GilbertTitle
        /\ result[1].level = <<"L", "2">>
        /\ result[1].page = <<"5">>
        /\ result[1].score = 93

\* The invocation 1 of _titles_only has returned out[1].
TitlesReturned == kpc[1] = "done"

\* The titles of the argument of the invocation 1.
InputTitles == {uniq_sources[1][j].title : j \in 1..Len(uniq_sources[1])}

\* C15: the list returned by _titles_only holds no string twice.
C15_TitlesUnique ==
    TitlesReturned =>
        \A a, b \in 1..Len(out[1]) : a # b => out[1][a] # out[1][b]

\* Sources with different pages share a title, and another title follows.
C15_Witness ==
    /\ TitlesReturned
    /\ Len(out[1]) >= 2
    /\ \E j, l \in 1..Len(uniq_sources[1]) :
          /\ j # l
          /\ uniq_sources[1][j].title = uniq_sources[1][l].title
          /\ uniq_sources[1][j].page # uniq_sources[1][l].page

\* The position of the first source with the title t.
FirstPosition(t) ==
    CHOOSE j \in 1..Len(uniq_sources[1]) :
        /\ uniq_sources[1][j].title = t
        /\ \A l \in 1..(j - 1) : uniq_sources[1][l].title # t

\* C16: the result of _titles_only holds exactly the titles of its input,
\* each once, ordered by the position of the title's first occurrence.
C16_FirstSeenOrder ==
    TitlesReturned =>
        /\ {out[1][a] : a \in 1..Len(out[1])} = InputTitles
        /\ Len(out[1]) = Cardinality(InputTitles)
        /\ \A a, b \in 1..Len(out[1]) :
              a < b => FirstPosition(out[1][a]) < FirstPosition(out[1][b])

\* A title recurs after another title: the order is that of first occurrence.
C16_Witness ==
    /\ TitlesReturned
    /\ Len(out[1]) = 2
    /\ Len(uniq_sources[1]) = 3
    /\ uniq_sources[1][1].title = uniq_sources[1][3].title
    /\ uniq_sources[1][1].title # uniq_sources[1][2].title

\* The call of _dedup_and_rank_sources has an empty or absent list of matches.
NoMatches == matches = NoneV \/ matches = ListV(<<>>)

\* C14: for an empty or absent list of matches and any top_k,
\* _dedup_and_rank_sources raises nothing and returns the empty list, and
\* _titles_only of the empty list raises nothing and returns the empty list.
C14_EmptyInEmptyOut ==
    /\ NoMatches => /\ pc # "raised"
                    /\ pc = "done" => result = <<>>
    /\ \A p \in Procs :
          uniq_sources[p] = <<>> => /\ kpc[p] # "raised"
                                    /\ kpc[p] = "done" => out[p] = <<>>

\* Both functions have returned from an absent and an empty input.
C14_Witness ==
    /\ matches = NoneV
    /\ pc = "done"
    /\ result = <<>>
    /\ \E p \in Procs : uniq_sources[p] = <<>> /\ kpc[p] = "done"

\* What the call of _dedup_and_rank_sources in progress or finished has
\* produced, once it has returned or raised.
RankOutcome == IF pc = "done" THEN Ok(result) ELSE Raise(exc)

\* What the invocation p of _titles_only has produced.
TitlesOutcome(p) == IF kpc[p] = "done" THEN Ok(out[p]) ELSE Raise("KeyError")

\* C19: under any interleaving of an invocation of _dedup_and_rank_sources
\* and two of _titles_only on separate inputs, each invocation ends as it
\* does when run alone.
C19_InterleavingFree ==
    /\ pc \in {"done", "raised"} => RankOutcome = RankAlone(matches, top_k)
    /\ \A p \in Procs :
          kpc[p] \in {"done", "raised"} => TitlesOutcome(p) = TitlesAlone(uniq_sources[p])

\* All three invocations have returned, the two of _titles_only with a
\* title in common.
C19_Witness ==
    /\ pc = "done"
    /\ result # <<>>
    /\ kpc[1] = "done"
    /\ kpc[2] = "done"
    /\ out[1] # <<>>
    /\ \E a \in 1..Len(out[1]), b \in 1..Len(out[2]) : out[1][a] = out[2][b]

\* C18: _dedup_and_rank_sources leaves matches and top_k as they were
\* passed, and every call, a later one after any earlier one included,
\* returns what the call returns when it is the only one ever made: it
\* keeps nothing from call to call, so equal arguments give equal lists.
C18_Pure ==
    /\ [](pc \in {"done", "raised"} => RankOutcome = RankAlone(matches, top_k))
    /\ [][calls' = calls => (matches' = matches /\ top_k' = top_k)]_vars

\* A second call has returned a non-empty list.
C18_Witness ==
    /\ calls = 2
    /\ pc = "done"
    /\ result # <<>>

\* The candidate keys in the order the claim fixes.
ClaimKeys == <<"text", "chunk", "content", "body", "passage">>

\* The positions in ClaimKeys of the keys of meta bound to a str that is
\* not empty once trimmed.
UsablePositions ==
    { j \in 1..Len(ClaimKeys) :
        /\ ClaimKeys[j] \in DOMAIN meta
        /\ meta[ClaimKeys[j]].t = "str"
        /\ \E a \in 1..Len(meta[ClaimKeys[j]].s) : meta[ClaimKeys[j]].s[a] \notin Whitespace }

\* s has no whitespace at either end.
Trimmed(s) == s = <<>> \/ (s[1] \notin Whitespace /\ s[Len(s)] \notin Whitespace)

\* C17: _extract_snippet returns the trimmed value of the first key, in the
\* order text, chunk, content, body, passage, bound to a str that is not
\* empty once trimmed, and "" when there is none; the str returned is never
\* whitespace-only and never untrimmed.
C17_FirstUsableTrimmed ==
    spc = "done" =>
        /\ Trimmed(snippet)
        /\ IF UsablePositions = {}
           THEN snippet = <<>>
           ELSE LET j == CHOOSE a \in UsablePositions : \A b \in UsablePositions : a <= b
                    v == meta[ClaimKeys[j]].s
                IN  /\ snippet # <<>>
                    /\ \E lo, hi \in 1..Len(v) :
                          /\ snippet = SubSeq(v, lo, hi)
                          /\ \A a \in (1..(lo - 1)) \cup ((hi + 1)..Len(v)) : v[a] \in Whitespace

\* A whitespace-only text is passed over and a later key's value, which
\* needs trimming, is returned although a usable key follows it.
C17_Witness ==
    /\ spc = "done"
    /\ "text" \in DOMAIN meta
    /\ meta.text = StrV(<<" ">>)
    /\ "content" \in DOMAIN meta
    /\ meta.content = StrV(<<" ", "a", " ">>)
    /\ "passage" \in DOMAIN meta
    /\ meta.passage = StrV(<<"b">>)
    /\ snippet = <<"a">>

\* The header is a str that begins with "Bearer ".
HasBearer == authorization.t = "str" /\ OccursAt(authorization.s, BearerPrefix, 1)

\* The header's token: what follows "Bearer ", without the whitespace
\* around it.
BearerToken ==
    LET rest == SubSeq(authorization.s, Len(BearerPrefix) + 1, Len(authorization.s))
    IN  Strip(rest, Whitespace)

\* What the claim says require_auth answers: 0 for an accepted request.
ClaimedAuth ==
    IF API_TOKEN = <<>> THEN 0
    ELSE IF ~HasBearer THEN 401
    ELSE IF BearerToken # API_TOKEN THEN 403
    ELSE 0

\* C20: with an empty API_TOKEN every request passes require_auth; with one
\* set, a request without a header that starts with "Bearer " is answered
\* 401, one whose token differs from API_TOKEN 403, and only the matching
\* token passes; /search, /rag and /review make no rate-limit check,
\* database write or external call before the request has passed.
C20_AuthFirst ==
    /\ hpc # "auth" =>
          IF ClaimedAuth = 0
          THEN status \notin {401, 403}
          ELSE status = ClaimedAuth /\ hpc = "done"
    /\ events # <<>> => hpc # "auth" /\ ClaimedAuth = 0
    /\ ClaimedAuth # 0 => REQUESTS \in RequestsInputs

\* A /rag request with the matching token, written with whitespace around
\* it, has passed the check, been counted, stored and answered.
C20_Witness ==
    /\ API_TOKEN = <<"t">>
    /\ authorization = StrV(BearerPrefix \o <<" ", "t">>)
    /\ endpoint = "rag"
    /\ status = 200
    /\ Len(events) >= 5

\* The position of the first match that derives the key of the entry e.
FirstOccurrence(e) ==
    CHOOSE j \in PositionsOf(KeyOf(e)) : \A l \in PositionsOf(KeyOf(e)) : j <= l

\* C21: returned entries with the same tier and the same score stand in
\* the order in which their keys first occurred in the input, also when
\* the entry stored for a key was replaced later by a higher-scoring match.
C21_TiesInFirstSeenOrder ==
    Returned =>
        \A a, b \in 1..Len(result) :
            ( /\ a < b
              /\ ClaimTier(result[a].level) = ClaimTier(result[b].level)
              /\ result[a].score = result[b].score )
            => FirstOccurrence(result[a]) < FirstOccurrence(result[b])

\* Two returned entries tie; the one in front was stored by a match that
\* came after the first match of the other and replaced an earlier entry.
C21_Witness ==
    /\ Returned
    /\ \E a, b \in 1..Len(result) :
          /\ a < b
          /\ ClaimTier(result[a].level) = ClaimTier(result[b].level)
          /\ result[a].score = result[b].score
          /\ \E j \in PositionsOf(KeyOf(result[a])) :
                /\ Derived(j).score = result[a].score
                /\ j > FirstOccurrence(result[b])
                /\ \A l \in PositionsOf(KeyOf(result[a])) :
                      Derived(l).score = result[a].score => j <= l

\* The last entry of the log of a request.
LastEvent == IF events = <<>> THEN "" ELSE events[Len(events)]

\* C24: an HTTP error raised inside the /review handler is answered with
\* the status it was raised with: 400 without files, 413 for a file that
\* is too large, 415 for an unsupported or unparseable one.
C24_StatusKept ==
    (endpoint = "review" /\ hpc = "done") =>
        /\ LastEvent = "raised_400" => status = 400
        /\ LastEvent = "raised_413" => status = 413
        /\ LastEvent = "raised_415" => status = 415

\* The place of an external call in the order the claim fixes, 0 for any
\* other entry of a log.
CallRank(ev) ==
    CASE ev = "embedding"   -> 1
      [] ev = "index_query" -> 2
      [] ev = "generation"  -> 3
      [] OTHER              -> 0

\* In the log ev the external calls stand in the order embedding, index
\* query, generation, and no index query and no generation is made when the
\* embedding call raised.
InClaimedOrder(ev) ==
    /\ \A a, b \in 1..Len(ev) :
          (a < b /\ CallRank(ev[a]) > 0 /\ CallRank(ev[b]) > 0)
          => CallRank(ev[a]) < CallRank(ev[b])
    /\ \A a \in 1..(Len(ev) - 1) :
          (ev[a] = "embedding" /\ ev[a + 1] = "raised")
          => \A b \in 1..Len(ev) : CallRank(ev[b]) \notin {2, 3}

\* C22: in a /rag request and in an /api/chat request the external calls
\* happen in the order embedding, index query, generation, and neither the
\* index query nor the generation is issued when the embedding call fails.
C22_CallOrder ==
    /\ endpoint = "rag" => InClaimedOrder(events)
    /\ InClaimedOrder(aevents)
    /\ apc = "generate" => (aevents # <<>> /\ aevents[1] = "embedding")
    /\ (endpoint = "rag" /\ hpc \in {"query", "synth"}) =>
          "embedding" \in {events[a] : a \in 1..Len(events)}

\* An /api/chat request has made its three calls.
C22_Witness ==
    /\ apc = "done"
    /\ aevents = <<"embedding", "index_query", "generation">>

\* The index query of an /api/chat request raised.
QueryRaised ==
    \E a \in 1..(Len(aevents) - 1) : aevents[a] = "index_query" /\ aevents[a + 1] = "raised"

\* C23: in /api/chat a failed index query does not fail the request: the
\* generation is called with nothing retrieved and a reply is returned with
\* an empty citations list; the citations of a reply are the first
\* min(3, number retrieved) retrieved items, in retrieval order.
C23_RetrievalOptional ==
    /\ QueryRaised =>
          /\ retrieved = <<>>
          /\ apc \in {"generate", "done"}
          /\ apc = "done" => "generation" \in {aevents[a] : a \in 1..Len(aevents)}
          /\ (apc = "done" /\ aevents[Len(aevents)] # "raised") =>
                (astatus = 200 /\ citations = ListV(<<>>))
    /\ (apc = "done" /\ astatus = 200 /\ question # <<>>) =>
          /\ citations.t = "list"
          /\ Len(citations.l) = Min(3, Len(retrieved))
          /\ \A j \in 1..Len(citations.l) :
                /\ citations.l[j].id = retrieved[j].id
                /\ citations.l[j].score = retrieved[j].score

\* A reply that cites three of four retrieved items.
C23_Witness ==
    /\ apc = "done"
    /\ astatus = 200
    /\ Len(retrieved) = 4
    /\ Len(citations.l) = 3

\* C28: every stored message's chat_id refers to a stored chat, under any
\* interleaving of /rag, /review and DELETE requests.
C28_NoOrphanMessage ==
    \A m \in messages : \E c \in chats : c.id = m.chat_id

\* The chat with the id cid is stored and its owner is the user u.
ChatOf(cid, u) == [id |-> cid, user_id |-> u] \in chats

\* C26: after any /rag and /review requests every message a request stored
\* is in a chat owned by the request's user, and a request that supplied
\* the id of no chat of its user works on a different, fresh chat.
C26_StoredInOwnChat ==
    \A r \in Requests :
        /\ \A k \in 1..Len(reqs[r].mids) :
              \E m \in messages :
                  /\ m.id = reqs[r].mids[k]
                  /\ ChatOf(m.chat_id, reqs[r].user_id)
        /\ (Len(reqs[r].mids) > 0 /\ ~ChatOf(reqs[r].asked, reqs[r].user_id))
              => /\ reqs[r].chat_id # reqs[r].asked
                 /\ ChatOf(reqs[r].chat_id, reqs[r].user_id)

\* A request that supplied the id of another user's chat has stored both of
\* its messages.
C26_Witness ==
    \E r \in Requests :
        /\ Len(reqs[r].mids) = 2
        /\ \E c \in chats : c.id = reqs[r].asked /\ c.user_id # reqs[r].user_id

\* C27: a DELETE of a chat the user does not own, or of no chat, answers
\* 404 and leaves chats and messages as they were; a DELETE by the owner
\* answers 200 and removes the chat and every message of it.
C27_DeleteOwnedOnly ==
    [][\A r \in Requests :
          (reqs[r].pos = "delete_chat" /\ reqs'[r].pos = "done")
             => IF ChatOf(reqs[r].chat_id, reqs[r].user_id)
                THEN /\ reqs'[r].status = 200
                     /\ chats' = chats \ {[id |-> reqs[r].chat_id, user_id |-> reqs[r].user_id]}
                     /\ messages' \subseteq messages
                     /\ \A m \in messages :
                           m \in messages' <=> m.chat_id # reqs[r].chat_id
                ELSE /\ reqs'[r].status = 404
                     /\ chats' = chats
                     /\ messages' = messages]_vars

\* A DELETE by a user who does not own the chat, which holds a message, was
\* answered.
C27_Witness ==
    \E r \in Requests :
        /\ reqs[r].kind = "delete"
        /\ reqs[r].pos = "done"
        /\ \E c \in chats : c.id = reqs[r].chat_id /\ c.user_id # reqs[r].user_id
        /\ \E m \in messages : m.chat_id = reqs[r].chat_id

\* The request r stored the message with the id mid, of the given role, in
\* its chat.
StoredBy(r, mid, role) ==
    \E m \in messages : m.id = mid /\ m.role = role /\ m.chat_id = reqs[r].chat_id

\* The last entry of the call log of the request r.
LastCall(r) == IF reqs[r].calls = <<>> THEN "" ELSE reqs[r].calls[Len(reqs[r].calls)]

\* The external calls of a /rag request, in the order the handler makes them.
RagCalls == <<"embedding", "index_query", "synthesis">>

InWindow(t) == {k \in 1..Len(REQUESTS) : REQUESTS[k] <= t /\ t - REQUESTS[k] <= RATE_WINDOW}

\* C25: under any interleaving of check_rate_limit calls the deque holds at
\* most RATE_LIMIT entries and at most RATE_LIMIT admitted calls lie in one
\* window.
C25_LimitHolds ==
    /\ Len(REQUESTS) <= RATE_LIMIT
    /\ \A t \in 0..MaxClock : Cardinality(InWindow(t)) <= RATE_LIMIT

\* The snippets stripped, the empty ones left out, in input order.
RECURSIVE NonEmptyTrimmed(_)
NonEmptyTrimmed(ss) ==
    IF ss = <<>> THEN <<>>
    ELSE LET s == Strip(Head(ss), Whitespace)
         IN  (IF s = <<>> THEN <<>> ELSE <<s>>) \o NonEmptyTrimmed(Tail(ss))

\* The sum of the lengths of the strings of a list.
RECURSIVE TotalLen(_)
TotalLen(ss) == IF ss = <<>> THEN 0 ELSE Len(Head(ss)) + TotalLen(Tail(ss))

\* The snippets kept are a prefix of the non-empty trimmed snippets, within
\* the character budget, and the next one, if any was left out, is past the
\* budget or the count is reached.
KeptIsBudgetPrefix ==
    LET all == NonEmptyTrimmed(snippets)
    IN  /\ Len(buf) <= Len(all)
        /\ buf = SubSeq(all, 1, Len(buf))
        /\ TotalLen(buf) <= MAX_CONTEXT_CHARS
        /\ Len(buf) < Len(all) =>
              \/ TotalLen(buf) + Len(all[Len(buf) + 1]) > MAX_CONTEXT_CHARS
              \/ Len(buf) >= MAX_SNIPPETS

\* C30: the context handed to the model is a prefix of the non-empty
\* trimmed snippets, of at most MAX_SNIPPETS snippets and at most
\* MAX_CONTEXT_CHARS characters in total, ending at the first snippet past
\* the budget; with neither snippets nor sources the model is not called.
C30_ContextWithinLimits ==
    /\ ypc \in {"model", "returned"} =>
          /\ KeptIsBudgetPrefix
          /\ context = StrV(Join(ContextSeparator, buf))
          /\ Len(buf) <= MAX_SNIPPETS
    /\ (snippets = <<>> /\ ~sources_given) => ypc \in {"idle", "start", "no_material"}

====
